---- MODULE Spec2Model ----
(***************************************************************************)
(* Plugin lifecycle of QDataServer: PluginSpec (pluginspec.cpp, held in    *)
(* src/pluginloader/pluginview.cpp) and PluginManager (pluginmanager.cpp,  *)
(* held in src/unnamed/part_007).                                          *)
(*                                                                         *)
(* A PluginSpec object is identified by the spec file it was created for.  *)
(* The heap h maps every spec object to its PluginSpecPrivate fields.      *)
(***************************************************************************)
EXTENDS Integers, Sequences, FiniteSets, TLC

\* ------------------------------------------------------------------ bounds

\* Longest <dependencyList> of a spec file.
MaxDeps == 2
\* Most names in the list of disabled plugins read from the settings.
MaxDisabled == 1
\* Most PluginSpec operations a caller other than the manager makes.
MaxOps == 5
\* Most failures (spec files that are not well-formed, libraries that do not
\* load, plugins that fail to initialize) in one run of the application.
MaxFaults == 1

\* ------------------------------------------------------------- universe

\* Spec objects, in ascending order of the plugin name their file declares
\* (the order of QMap<QString, PluginSpec *>).
NameOrder == <<"A", "B", "C">>

Names == {NameOrder[i] : i \in 1..Len(NameOrder)}

\* The plugin the application makes persistent ("Core" in main()).
CoreName == "A"

\* The name of a spec whose file did not give one (QString()).
NoName == ""

\* IPlugin * of a spec without instance.
NullPlugin == <<>>

\* The IPlugin instance the library of spec s creates.
InstanceOf(s) == <<"plugin", s>>

\* PluginSpec::State
Invalid == 0

Read == 1

Resolved == 2

Loaded == 3

Initialized == 4

\* ------------------------------------------------------------- sequences

InSeq(x, seq) == \E i \in 1..Len(seq) : seq[i] = x

SeqSet(seq) == {seq[i] : i \in 1..Len(seq)}

NoDup(seq) == \A i, j \in 1..Len(seq) : seq[i] = seq[j] => i = j

RECURSIVE Reverse(_)
Reverse(seq) == IF seq = <<>> THEN <<>> ELSE Append(Reverse(Tail(seq)), Head(seq))

Last(seq) == seq[Len(seq)]

Front(seq) == SubSeq(seq, 1, Len(seq) - 1)

IndexOf(x, seq) == CHOOSE i \in 1..Len(seq) : seq[i] = x /\ \A j \in 1..(i - 1) : seq[j] # x

\* Sequences without repetition over S of length at most n.
RECURSIVE SeqsUpTo(_, _)
SeqsUpTo(S, n) ==
    IF n = 0 THEN {<<>>}
    ELSE LET shorter == SeqsUpTo(S, n - 1)
         IN shorter \cup {Append(q, x) : q \in {r \in shorter : Len(r) = n - 1},
                                         x \in S}

ListsUpTo(S, n) == {q \in SeqsUpTo(S, n) : NoDup(q)}

\* All orders in which the elements of S can be listed.
Orderings(S) == {q \in SeqsUpTo(S, Cardinality(S)) : NoDup(q) /\ SeqSet(q) = S}

\* ------------------------------------------------------------ PluginSpec

\* PluginSpecPrivate::PluginSpecPrivate
NewSpec ==
    [name |-> NoName,
     version |-> <<>>,
     dependencies |-> <<>>,
     dependencyVersions |-> <<>>,
     enabled |-> FALSE,
     persistent |-> FALSE,
     indirectlyDisabled |-> FALSE,
     initializationFailed |-> FALSE,
     circularDependencyDetected |-> FALSE,
     providesSpecs |-> <<>>,
     dependencySpecs |-> <<>>,
     plugin |-> NullPlugin,
     state |-> Invalid,
     hasError |-> FALSE,
     errorString |-> <<>>]

\* reportError as it would be if it also made the spec Invalid.
reportError_Invalidate(h, t, err) ==
    [h EXCEPT ![t].errorString = Append(@, err), ![t].hasError = TRUE, ![t].state = Invalid]

\* reportError as it would be if it replaced the error string.
reportError_Replace(h, t, err) ==
    [h EXCEPT ![t].errorString = <<err>>, ![t].hasError = TRUE]

\* PluginSpecPrivate::reportError: the message is appended (the lines of
\* errorString are the elements of the sequence), hasError is set.
reportError(h, t, err) ==
    [h EXCEPT ![t].errorString = Append(@, err), ![t].hasError = TRUE]

\* PluginSpec::isEnabled
isEnabled(h, t) == h[t].enabled \/ h[t].persistent

\* setEnabled as it would be without the test of persistent.
setEnabled_Always(h, t, enabled) == [h EXCEPT ![t].enabled = enabled]

\* PluginSpec::setEnabled
setEnabled(h, t, enabled) ==
    IF h[t].persistent /\ ~enabled THEN h
    ELSE [h EXCEPT ![t].enabled = enabled]

\* PluginSpec::setPersistent
setPersistent(h, t, persistent) ==
    LET h1 == [h EXCEPT ![t].persistent = persistent]
    IN IF persistent THEN [h1 EXCEPT ![t].enabled = persistent] ELSE h1

\* ---------------------------------------------------------------- read

\* What a spec file holds: "ok" a well-formed description; "missing" no such
\* file; "unreadable" the file cannot be opened; "malformed" the XML reader
\* ends with an error after the elements before it were taken over;
\* "wrongTop" the top level element is not <plugin>; "noName" <plugin> has
\* no name attribute; "badDep" a <dependency> has no name attribute.
FileKinds == {"ok", "missing", "unreadable", "malformed", "wrongTop", "noName", "badDep"}

\* The kinds on which QXmlStreamReader itself reports no error.
ParsedKinds == {"ok", "wrongTop", "noName", "badDep"}

\* A version, as every QString whose characters matter, is the sequence of
\* its characters; Digits are the characters [0-9] of the regular expressions.
Digits == <<"0", "1", "2", "3", "4", "5", "6", "7", "8", "9">>

isDigits(str) ==
    str # <<>> /\ \A i \in 1..Len(str) : \E k \in 1..Len(Digits) : str[i] = Digits[k]

\* The parts of str between the separators sep, empty parts kept.
RECURSIVE parts(_, _)
parts(str, sep) ==
    IF \A i \in 1..Len(str) : str[i] # sep
    THEN <<str>>
    ELSE LET k == CHOOSE i \in 1..Len(str) :
                     str[i] = sep /\ \A j \in 1..(i - 1) : str[j] # sep
         IN  <<SubSeq(str, 1, k - 1)>> \o parts(SubSeq(str, k + 1, Len(str)), sep)

\* PluginSpecPrivate::isValidVersion: versionRegExp() matches the whole
\* string: one to three numbers separated by dots, then possibly an
\* underscore and a number.
isValidVersion(version) ==
    LET u == parts(version, "_")
    IN  /\ Len(u) <= 2
        /\ Len(u) = 2 => isDigits(u[2])
        /\ Len(parts(u[1], ".")) <= 3
        /\ \A i \in 1..Len(parts(u[1], ".")) : isDigits(parts(u[1], ".")[i])

\* version = attribute; if (!isValidVersion(version)) version.clear();
versionRead(attribute) == IF isValidVersion(attribute) THEN attribute ELSE <<>>

\* The spec file of plugin s with the given content and no version
\* attributes.
SpecFile(s, kind, deps) ==
    [kind |-> kind,
     name |-> IF kind \in {"ok", "malformed", "badDep"} THEN s ELSE NoName,
     version |-> <<>>,
     dependencies |-> IF kind \in {"ok", "malformed", "badDep"} THEN deps ELSE <<>>,
     dependencyVersions |-> IF kind \in {"ok", "malformed", "badDep"}
                            THEN [i \in 1..Len(deps) |-> <<>>] ELSE <<>>]

\* The spec file f with version attributes: version at <plugin>, and
\* dependencyVersions[i] at the i-th <dependency>.
withVersions(f, version, dependencyVersions) ==
    [f EXCEPT !.version = version, !.dependencyVersions = dependencyVersions]

\* The fields as they would be taken over if readDependencyEntry returned at
\* a <dependency> without a valid version.
fieldsRead_NeedsVersion(h, t, f) ==
    LET valid == {i \in 1..Len(f.dependencyVersions) : isValidVersion(f.dependencyVersions[i])}
        kept(list) == SelectSeq(list, LAMBDA x : \E i \in valid : f.dependencies[i] = x)
    IN  [h EXCEPT ![t].name = f.name,
                  ![t].version = versionRead(f.version),
                  ![t].dependencies = kept(f.dependencies),
                  ![t].dependencyVersions =
                      [i \in 1..Len(kept(f.dependencies)) |-> f.dependencyVersions[1]]]

\* The fields readPluginSpec and readDependencyEntry take over from file f.
fieldsRead(h, t, f) ==
    [h EXCEPT ![t].name = f.name,
              ![t].version = versionRead(f.version),
              ![t].dependencies = f.dependencies,
              ![t].dependencyVersions =
                  [i \in 1..Len(f.dependencyVersions) |-> versionRead(f.dependencyVersions[i])]]

\* PluginSpecPrivate::readPluginSpec with readDependencies and
\* readDependencyEntry: the fields and the errors taken from the elements.
readPluginSpec(h, t, f) ==
    CASE f.kind = "wrongTop" -> reportError(h, t, <<"Expected element 'plugin' as top level element">>)
      [] f.kind = "noName" -> reportError(h, t, <<"Expected attribut 'name' at element plugin">>)
      [] f.kind = "badDep" ->
            reportError(fieldsRead(h, t, f),
                        t, <<"Expected attribut 'name' at element dependency">>)
      [] OTHER -> fieldsRead(h, t, f)

\* The fields PluginSpecPrivate::read clears before it opens the file.
readClear(h, t) ==
    [h EXCEPT ![t].name = NoName,
              ![t].version = <<>>,
              ![t].errorString = <<>>,
              ![t].dependencies = <<>>,
              ![t].dependencyVersions = <<>>,
              ![t].enabled = FALSE,
              ![t].indirectlyDisabled = FALSE,
              ![t].circularDependencyDetected = FALSE,
              ![t].providesSpecs = <<>>,
              ![t].dependencySpecs = <<>>,
              ![t].plugin = NullPlugin,
              ![t].state = Invalid,
              ![t].hasError = FALSE]

\* PluginSpecPrivate::read: the heap after the call and the value returned.
read(h, t, f) ==
    LET h0 == readClear(h, t)
    IN CASE f.kind = "missing" ->
              [h |-> reportError(h0, t, <<"File does not exist">>), ret |-> FALSE]
         [] f.kind = "unreadable" ->
              [h |-> reportError(h0, t, <<"File could not be opened for read">>), ret |-> FALSE]
         [] f.kind = "malformed" ->
              [h |-> reportError(readPluginSpec(h0, t, f), t, <<"Error parsing spec file">>),
               ret |-> FALSE]
         [] OTHER ->
              [h |-> [readPluginSpec(h0, t, f) EXCEPT ![t].state = Read, ![t].enabled = TRUE],
               ret |-> TRUE]

\* ------------------------------------------------- resolveDependencies

\* The first spec of the list that bears the name, or NoName when none does
\* (the inner foreach of PluginSpecPrivate::resolveDependencies).
findSpec(h, specs, depName) ==
    IF \E i \in 1..Len(specs) : h[specs[i]].name = depName
    THEN specs[CHOOSE i \in 1..Len(specs) :
                   /\ h[specs[i]].name = depName
                   /\ \A j \in 1..(i - 1) : h[specs[j]].name # depName]
    ELSE NoName

\* The loop of resolveDependencies as it would be if it were left at the
\* first declared dependency that is not found.
RECURSIVE resolveLoop_StopAtFirst(_, _, _, _)
resolveLoop_StopAtFirst(c, t, specs, i) ==
    IF i > Len(c.h[t].dependencies) THEN c
    ELSE LET dep == c.h[t].dependencies[i]
             found == findSpec(c.h, specs, dep)
         IN IF found = NoName
            THEN [c EXCEPT !.h = reportError(c.h, t, <<"could not resolve dependency on", dep>>)]
            ELSE resolveLoop_StopAtFirst(
                     [h |-> [c.h EXCEPT ![found].providesSpecs = Append(@, t)],
                      resolved |-> Append(c.resolved, found)],
                     t, specs, i + 1)

\* The loop of resolveDependencies over the declared dependencies from the
\* i-th on: c.h is the heap, c.resolved the list resolvedDependencies.
RECURSIVE resolveLoop(_, _, _, _)
resolveLoop(c, t, specs, i) ==
    IF i > Len(c.h[t].dependencies) THEN c
    ELSE LET dep == c.h[t].dependencies[i]
             found == findSpec(c.h, specs, dep)
         IN IF found = NoName
            THEN resolveLoop([c EXCEPT !.h = reportError(c.h, t, <<"could not resolve dependency on", dep>>)],
                             t, specs, i + 1)
            ELSE resolveLoop([h |-> [c.h EXCEPT ![found].providesSpecs = Append(@, t)],
                              resolved |-> Append(c.resolved, found)],
                             t, specs, i + 1)

\* resolveDependencies as it would be if it returned after going back from
\* Resolved to Read.
resolveDependencies_GoBackOnly(h, t, specs) ==
    IF h[t].hasError THEN [h |-> h, ret |-> FALSE, asserted |-> TRUE]
    ELSE IF h[t].state = Resolved
    THEN [h |-> [h EXCEPT ![t].state = Read], ret |-> TRUE, asserted |-> TRUE]
    ELSE LET c == resolveLoop([h |-> h, resolved |-> <<>>], t, specs, 1)
         IN IF c.h[t].hasError
            THEN [h |-> c.h, ret |-> FALSE, asserted |-> h[t].state = Read]
            ELSE [h |-> [c.h EXCEPT ![t].dependencySpecs = c.resolved, ![t].state = Resolved],
                  ret |-> TRUE,
                  asserted |-> h[t].state = Read]

\* PluginSpecPrivate::resolveDependencies: the heap after the call, the value
\* returned and whether Q_ASSERT(state == PluginSpec::Read) held.
resolveDependencies(h, t, specs) ==
    IF h[t].hasError THEN [h |-> h, ret |-> FALSE, asserted |-> TRUE]
    ELSE LET h1 == IF h[t].state = Resolved THEN [h EXCEPT ![t].state = Read] ELSE h
             c == resolveLoop([h |-> h1, resolved |-> <<>>], t, specs, 1)
         IN IF c.h[t].hasError
            THEN [h |-> c.h, ret |-> FALSE, asserted |-> h1[t].state = Read]
            ELSE [h |-> [c.h EXCEPT ![t].dependencySpecs = c.resolved, ![t].state = Resolved],
                  ret |-> TRUE,
                  asserted |-> h1[t].state = Read]

\* -------------------------------------------- resolveIndirectlyDisabled

\* The names from the top of resolvedPluginsStack down to the topmost entry
\* of t (the while loop of the circular branch that builds pluginOrder).
RECURSIVE stackDownTo(_, _, _)
stackDownTo(stack, i, t) ==
    IF i = 0 THEN <<>>
    ELSE IF stack[i] = t THEN <<t>>
    ELSE <<stack[i]>> \o stackDownTo(stack, i - 1, t)

\* The condition as it would be without the test of isEnabled().
dependencyUnusable_IgnoreDisabled(h, t) ==
    \E i \in 1..Len(h[t].dependencySpecs) :
        LET d == h[t].dependencySpecs[i]
        IN h[d].hasError \/ h[d].indirectlyDisabled \/ h[d].initializationFailed

\* The condition of the foreach over dependencySpecs: some dependency has an
\* error, is indirectly disabled, is not enabled or failed to initialize.
dependencyUnusable(h, t) ==
    \E i \in 1..Len(h[t].dependencySpecs) :
        LET d == h[t].dependencySpecs[i]
        IN \/ h[d].hasError
           \/ h[d].indirectlyDisabled
           \/ ~isEnabled(h, d)
           \/ h[d].initializationFailed

\* The circular branch as it would be if it set circularDependencyDetected only.
markCircular_FlagOnly(h, t) == [h EXCEPT ![t].circularDependencyDetected = TRUE]

\* The circular branch as it would be if it set indirectlyDisabled only.
markCircular_DisableOnly(h, t) == [h EXCEPT ![t].indirectlyDisabled = TRUE]

\* The two flags the circular branch of resolveIndirectlyDisabled sets.
markCircular(h, t) ==
    [h EXCEPT ![t].indirectlyDisabled = TRUE, ![t].circularDependencyDetected = TRUE]

\* How many specs resolvedPluginsStack may hold before the model gives up
\* following the calls of resolveIndirectlyDisabled any deeper.
MaxDepth == 8

\* resolvedPluginsStack.push(this) of the circular branch, as it would be if
\* it were left out.
pushAgain_Skip(stack, t) == stack

\* resolvedPluginsStack.push(this) of the circular branch: the spec is on the
\* stack already.
pushAgain(stack, t) == Append(stack, t)

\* Q_ASSERT(me == this) after me = resolvedPluginsStack.pop(): the stack has
\* a top and it is this spec.
meIsThis(stack, t) == stack # <<>> /\ Last(stack) = t

\* PluginSpecPrivate::resolveIndirectlyDisabled on spec t. c.h is the heap,
\* c.stack the static resolvedPluginsStack, c.asserted whether every
\* Q_ASSERT(me == this) held so far, c.n the number of calls made so far,
\* c.deep the greatest size the stack had.
\* ridEach is a foreach over providesSpecs.
RECURSIVE resolveIndirectlyDisabled(_, _, _)
RECURSIVE ridEach(_, _, _, _)
resolveIndirectlyDisabled(c, t, forceResolve) ==
    IF Len(c.stack) >= MaxDepth THEN [c EXCEPT !.n = c.n + 1, !.deep = MaxDepth]
    ELSE IF c.h[t].circularDependencyDetected THEN [c EXCEPT !.n = c.n + 1]
    ELSE IF InSeq(t, c.stack)
    THEN LET h1 == markCircular(c.h, t)
             pluginOrder == <<c.h[t].name>> \o
                 [i \in 1..Len(stackDownTo(c.stack, Len(c.stack), t)) |->
                     c.h[stackDownTo(c.stack, Len(c.stack), t)[i]].name]
             c1 == [c EXCEPT !.h = h1, !.stack = pushAgain(c.stack, t), !.n = c.n + 1,
                             !.deep = IF Len(c.stack) < c.deep THEN c.deep
                                      ELSE Len(pushAgain(c.stack, t))]
             c2 == ridEach(c1, h1[t].providesSpecs, 1, TRUE)
             h3 == reportError(c2.h, t, <<"Circular dependency detected", pluginOrder>>)
         IN [h |-> h3,
             stack |-> Front(c2.stack),
             asserted |-> c2.asserted /\ meIsThis(c2.stack, t),
             n |-> c2.n,
             deep |-> c2.deep]
    ELSE IF ~forceResolve /\ c.h[t].indirectlyDisabled THEN [c EXCEPT !.n = c.n + 1]
    ELSE LET h1 == IF forceResolve THEN [c.h EXCEPT ![t].indirectlyDisabled = FALSE]
                   ELSE c.h
             h2 == IF dependencyUnusable(h1, t)
                   THEN [h1 EXCEPT ![t].indirectlyDisabled = TRUE]
                   ELSE h1
             c1 == [c EXCEPT !.h = h2, !.stack = Append(c.stack, t), !.n = c.n + 1,
                             !.deep = IF Len(c.stack) < c.deep THEN c.deep
                                      ELSE Len(c.stack) + 1]
             c2 == IF h2[t].indirectlyDisabled \/ forceResolve
                   THEN ridEach(c1, h2[t].providesSpecs, 1, forceResolve)
                   ELSE c1
         IN [h |-> c2.h,
             stack |-> Front(c2.stack),
             asserted |-> c2.asserted /\ meIsThis(c2.stack, t),
             n |-> c2.n,
             deep |-> c2.deep]

ridEach(c, list, i, forceResolve) ==
    IF i > Len(list) THEN c
    ELSE ridEach(resolveIndirectlyDisabled(c, list[i], forceResolve), list, i + 1, forceResolve)

\* A call of PluginSpec::resolveIndirectlyDisabled from outside, with the
\* static stack as the previous calls left it.
propagate(h, stack, t, forceResolve) ==
    resolveIndirectlyDisabled([h |-> h, stack |-> stack, asserted |-> TRUE, n |-> 0, deep |-> 0], t, forceResolve)

\* ------------------------------------------------ loadQueue, unloadQueue

\* The pluginOrder of the "Circular dependency detected" error of loadQueue
\* and unloadQueue: the names of circularityCheckQueue, then the own name.
queueOrder(h, circ, t) == [i \in 1..Len(circ) |-> h[circ[i]].name] \o <<h[t].name>>

\* The first test of loadQueue as it would be without indirectlyDisabled.
notLoadable_IgnoreIndirect(h, t) == ~h[t].enabled

\* The first test of loadQueue: the spec is disabled or indirectly disabled.
notLoadable(h, t) == ~h[t].enabled \/ h[t].indirectlyDisabled

\* The first test of unloadQueue as it would be without the test of state.
notUnloadable_IgnoreLoaded(h, t) == ~h[t].enabled \/ h[t].indirectlyDisabled

\* The first test of unloadQueue: as for loadQueue, unless the spec is loaded.
notUnloadable(h, t) == (~h[t].enabled \/ h[t].indirectlyDisabled) /\ h[t].state < Loaded

\* PluginSpecPrivate::loadQueue on spec t. c.h is the heap, c.queue and
\* c.circ the two in/out lists, c.ret the value returned by the last call,
\* c.asserted whether every Q_ASSERT(state >= PluginSpec::Resolved) held.
RECURSIVE loadQueue(_, _)
RECURSIVE loadQueueEach(_, _, _, _)
\* loadQueue as it would be with queue.append(q) moved before the foreach:
\* the spec comes out before its dependencies.
loadQueue_SelfFirst(c, t) ==
    LET a == [c EXCEPT !.asserted = c.asserted /\ c.h[t].state >= Resolved]
    IN IF notLoadable(a.h, t) THEN [a EXCEPT !.ret = FALSE]
       ELSE IF InSeq(t, a.queue) THEN [a EXCEPT !.ret = TRUE]
       ELSE loadQueueEach([a EXCEPT !.circ = Append(a.circ, t), !.queue = Append(a.queue, t)],
                          t, a.h[t].dependencySpecs, 1)

loadQueue(c, t) ==
    LET a == [c EXCEPT !.asserted = c.asserted /\ c.h[t].state >= Resolved]
    IN IF notLoadable(a.h, t) THEN [a EXCEPT !.ret = FALSE]
       ELSE IF InSeq(t, a.queue) THEN [a EXCEPT !.ret = TRUE]
       ELSE IF InSeq(t, a.circ)
       THEN [a EXCEPT !.h = reportError(a.h, t, <<"Circular dependency detected",
                                                    queueOrder(a.h, a.circ, t)>>),
                      !.ret = FALSE]
       ELSE LET c1 == [a EXCEPT !.circ = Append(a.circ, t)]
                c2 == loadQueueEach(c1, t, a.h[t].dependencySpecs, 1)
            IN IF c2.ret THEN [c2 EXCEPT !.queue = Append(c2.queue, t)] ELSE c2

\* The foreach of loadQueue over dependencySpecs, left at the first
\* dependency whose loadQueue fails.
loadQueueEach(c, t, list, i) ==
    IF i > Len(list) THEN [c EXCEPT !.ret = TRUE]
    ELSE LET c1 == loadQueue(c, list[i])
         IN IF ~c1.ret
            THEN [c1 EXCEPT !.h = reportError(c1.h, t,
                                <<"cannot be loaded because dependency failed", c1.h[list[i]].name>>)]
            ELSE loadQueueEach(c1, t, list, i + 1)

\* PluginSpecPrivate::unloadQueue on spec t, with c as for loadQueue.
RECURSIVE unloadQueue(_, _)
RECURSIVE unloadQueueEach(_, _, _)
\* unloadQueue as it would be with queue.append(q) moved before the foreach:
\* the spec comes out before the specs that depend on it.
unloadQueue_SelfFirst(c, t) ==
    LET a == [c EXCEPT !.asserted = c.asserted /\ c.h[t].state >= Resolved]
    IN IF notUnloadable(a.h, t) THEN [a EXCEPT !.ret = FALSE]
       ELSE IF InSeq(t, a.queue) THEN [a EXCEPT !.ret = TRUE]
       ELSE [unloadQueueEach([a EXCEPT !.circ = Append(a.circ, t),
                                       !.queue = Append(a.queue, t)],
                             a.h[t].providesSpecs, 1)
                EXCEPT !.ret = TRUE]

unloadQueue(c, t) ==
    LET a == [c EXCEPT !.asserted = c.asserted /\ c.h[t].state >= Resolved]
    IN IF notUnloadable(a.h, t) THEN [a EXCEPT !.ret = FALSE]
       ELSE IF InSeq(t, a.queue) THEN [a EXCEPT !.ret = TRUE]
       ELSE IF InSeq(t, a.circ)
       THEN [a EXCEPT !.h = reportError(a.h, t, <<"Circular dependency detected",
                                                    queueOrder(a.h, a.circ, t)>>),
                      !.ret = FALSE]
       ELSE LET c1 == [a EXCEPT !.circ = Append(a.circ, t)]
                c2 == unloadQueueEach(c1, a.h[t].providesSpecs, 1)
            IN [c2 EXCEPT !.queue = Append(c2.queue, t), !.ret = TRUE]

\* The foreach of unloadQueue over providesSpecs; the results are dropped.
unloadQueueEach(c, list, i) ==
    IF i > Len(list) THEN c
    ELSE unloadQueueEach(unloadQueue(c, list[i]), list, i + 1)

\* The two lists and the flags a caller hands to loadQueue or unloadQueue.
QueueCall(h, queue) == [h |-> h, queue |-> queue, circ |-> <<>>, ret |-> TRUE, asserted |-> TRUE]

\* ------------------------------ loadPlugin, initializePlugin, unloadPlugin

\* What QPluginLoader::instance() yields for a library: "ok" an IPlugin,
\* "notPlugin" an object that is no IPlugin, "loadError" no object.
LibOutcomes == {"ok", "notPlugin", "loadError"}

\* PluginSpecPrivate::loadPlugin: the heap after the call and whether
\* Q_ASSERT(state == PluginSpec::Resolved) held.
loadPlugin(h, t, lib) ==
    LET asserted == h[t].state = Resolved
    IN IF \E i \in 1..Len(h[t].dependencySpecs) : h[h[t].dependencySpecs[i]].plugin = NullPlugin
       THEN [h |-> h, asserted |-> asserted]
       ELSE CASE lib = "ok" ->
                   [h |-> [h EXCEPT ![t].plugin = InstanceOf(t), ![t].state = Loaded],
                    asserted |-> asserted]
              [] lib = "notPlugin" ->
                   [h |-> reportError(h, t, <<"The file is not compatible plugin">>),
                    asserted |-> asserted]
              [] OTHER ->
                   [h |-> reportError(h, t, <<"QPluginLoader::errorString">>),
                    asserted |-> asserted]

\* The test as it would be without the comparison of the state.
callsShutdown_AnyState(h, t) == h[t].plugin # NullPlugin

\* Whether PluginSpecPrivate::unloadPlugin calls IPlugin::shutdown.
callsShutdown(h, t) == h[t].plugin # NullPlugin /\ h[t].state >= Initialized

\* unloadPlugin as it would be if it went back to Read.
unloadPlugin_ToRead(h, t) ==
    IF h[t].plugin = NullPlugin THEN h
    ELSE [h EXCEPT ![t].plugin = NullPlugin, ![t].state = Read]

\* unloadPlugin as it would be if it left the plugin instance in place.
unloadPlugin_KeepInstance(h, t) ==
    IF h[t].plugin = NullPlugin THEN h
    ELSE [h EXCEPT ![t].state = Resolved]

\* PluginSpecPrivate::unloadPlugin
unloadPlugin(h, t) ==
    IF h[t].plugin = NullPlugin THEN h
    ELSE [h EXCEPT ![t].plugin = NullPlugin, ![t].state = Resolved]

\* What IPlugin::initialize and isShutdownRequested of a plugin answer.
InitOutcomes == {"ok", "fail", "failShutdown"}

\* PluginSpecPrivate::initializePlugin: the heap after the call, the value
\* returned and whether the two Q_ASSERTs held.
initializePlugin(h, t, init) ==
    LET asserted == h[t].plugin # NullPlugin /\ h[t].state = Loaded
    IN IF init # "ok"
       THEN [h |-> [reportError(h, t, <<"Initialization of plugin failed">>)
                       EXCEPT ![t].initializationFailed = TRUE],
             ret |-> FALSE,
             asserted |-> asserted]
       ELSE [h |-> [h EXCEPT ![t].initializationFailed = FALSE, ![t].state = Initialized],
             ret |-> TRUE,
             asserted |-> asserted]

\* ------------------------------------------------------------------ state

VARIABLES
    h,                              \* the fields of every PluginSpec object
    specs,                          \* the PluginSpec objects created, oldest first
    m_pluginToSpec,                 \* PluginManagerPrivate: <<key, spec>> in iteration order
    m_disabledPlugins,              \* PluginManagerPrivate: names read from the settings
    pluginWhichRequestedShutdown,   \* PluginManagerPrivate
    resolvedPluginsStack,           \* the static stack of resolveIndirectlyDisabled
    pc,                             \* how far the caller of the operations has got
    calls,                          \* the PluginSpec calls of the last operation, in order
    result,                         \* what the last operation returned
    asserted,                       \* no Q_ASSERT has failed so far
    lastDisabled,                   \* the spec setEnabled(false) was last called on
    madePersistent,                 \* the specs setPersistent(true) was called on
    faults,                         \* how many files, libraries and plugins failed so far
    opCount,                        \* how many PluginSpec operations were called directly
    dg,                             \* a dependency graph object of Utils and its caller
    conf,                           \* Configuration expressions and what was asked of them
    twin,                           \* the manager of a second process, given other files
    fsw                             \* FileSystemWatcher::Watcher, its owners and the files

\* The variables of the classes of Utils, and their values while only the
\* plugin loader runs.
libVars == <<dg, conf, twin, fsw>>
LibIdle == dg = <<>> /\ conf = <<>> /\ twin = <<>> /\ fsw = <<>>

\* The variables of the plugin loader.
pluginVars == <<h, specs, m_pluginToSpec, m_disabledPlugins, pluginWhichRequestedShutdown,
                resolvedPluginsStack, pc, calls, result, asserted, lastDisabled,
                madePersistent, faults, opCount>>

vars == <<pluginVars, libVars>>

\* The declared dependency lists a spec file may hold.
DepLists == ListsUpTo(Names, MaxDeps)

\* The heap after spec objects were created for the listed files and each
\* was read (files maps a spec to the content of its file).
RECURSIVE readAll(_, _, _, _)
readAll(h0, list, files, i) ==
    IF i > Len(list) THEN h0
    ELSE readAll(read(h0, list[i], files[list[i]]).h, list, files, i + 1)

mgrVarsInit ==
    /\ m_pluginToSpec = <<>>
    /\ m_disabledPlugins = {}
    /\ pluginWhichRequestedShutdown = NoName
    /\ LibIdle

\* ------------------------------------- the resolver on PluginSpec objects

\* Some well-formed spec files were read into fresh PluginSpec objects.
InitResolver ==
    /\ \E created \in (SUBSET Names) \ {{}} :
       \E deps \in [created -> DepLists] :
          /\ specs = SelectSeq(NameOrder, LAMBDA s : s \in created)
          /\ h = readAll([s \in Names |-> NewSpec],
                         SelectSeq(NameOrder, LAMBDA s : s \in created),
                         [s \in created |-> SpecFile(s, "ok", deps[s])], 1)
    /\ mgrVarsInit
    /\ resolvedPluginsStack = <<>>
    /\ pc = "read"
    /\ calls = <<>>
    /\ result = TRUE
    /\ asserted = TRUE
    /\ lastDisabled = NoName
    /\ madePersistent = {}
    /\ faults = 0
    /\ opCount = 0

\* resolveDependencies on every spec of the list from the i-th on.
RECURSIVE resolveEach(_, _, _, _)
resolveEach(c, order, list, i) ==
    IF i > Len(order) THEN c
    ELSE LET r == resolveDependencies(c.h, order[i], list)
         IN resolveEach([h |-> r.h, asserted |-> c.asserted /\ r.asserted], order, list, i + 1)

\* resolveIndirectlyDisabled(true) on every spec of the list from the i-th on.
RECURSIVE propagateEach(_, _, _)
propagateEach(c, order, i) ==
    IF i > Len(order) THEN c
    ELSE propagateEach(resolveIndirectlyDisabled(c, order[i], TRUE), order, i + 1)

\* resolveDependencies is called on every spec, in some order, with the
\* list of all specs.
ResolveAll ==
    /\ pc = "read"
    /\ \E order \in Orderings(SeqSet(specs)) :
          LET c == resolveEach([h |-> h, asserted |-> asserted], order, specs, 1)
          IN /\ h' = c.h
             /\ asserted' = c.asserted
    /\ pc' = "resolved"
    /\ UNCHANGED <<specs, m_pluginToSpec, m_disabledPlugins, libVars, pluginWhichRequestedShutdown,
                   resolvedPluginsStack, calls, result, lastDisabled, madePersistent, faults,
                   opCount>>

\* The application calls setPersistent() on the spec of its core plugin.
SetPersistent ==
    /\ pc = "resolved"
    /\ \E t \in SeqSet(specs) :
          /\ h[t].name = CoreName
          /\ h' = setPersistent(h, t, TRUE)
          /\ madePersistent' = madePersistent \cup {t}
    /\ pc' = "persisted"
    /\ UNCHANGED <<specs, m_pluginToSpec, m_disabledPlugins, libVars, pluginWhichRequestedShutdown,
                   resolvedPluginsStack, calls, result, asserted, lastDisabled, faults, opCount>>

\* PluginSpec::setEnabled(false) on one spec.
SetEnabled ==
    /\ pc \in {"resolved", "persisted"}
    /\ \E t \in SeqSet(specs) :
          /\ h' = setEnabled(h, t, FALSE)
          /\ lastDisabled' = t
    /\ pc' = "toggled"
    /\ UNCHANGED <<specs, m_pluginToSpec, m_disabledPlugins, libVars, pluginWhichRequestedShutdown,
                   resolvedPluginsStack, calls, result, asserted, madePersistent, faults,
                   opCount>>

\* resolveIndirectlyDisabled(true) is called on every spec, in some order.
PropagateAll ==
    /\ pc \in {"resolved", "persisted", "toggled"}
    /\ \E order \in Orderings(SeqSet(specs)) :
          LET c == propagateEach([h |-> h, stack |-> resolvedPluginsStack,
                                  asserted |-> TRUE, n |-> 0, deep |-> 0], order, 1)
          IN /\ h' = c.h
             /\ resolvedPluginsStack' = c.stack
             /\ asserted' = (asserted /\ c.asserted)
             /\ result' = [op |-> "propagateAll", n |-> c.n, deep |-> c.deep,
                           balanced |-> c.asserted]
    /\ pc' = "propagated"
    /\ UNCHANGED <<specs, m_pluginToSpec, m_disabledPlugins, libVars, pluginWhichRequestedShutdown,
                   calls, lastDisabled, madePersistent, faults, opCount>>

\* PluginSpec::resolveIndirectlyDisabled(forceResolve) is called on one spec,
\* before or after the calls on every spec.
PropagateOne ==
    /\ pc \in {"resolved", "toggled", "propagated"}
    /\ \E t \in SeqSet(specs), forceResolve \in BOOLEAN :
          LET c == propagate(h, resolvedPluginsStack, t, forceResolve)
          IN /\ h' = c.h
             /\ resolvedPluginsStack' = c.stack
             /\ asserted' = (asserted /\ c.asserted)
             /\ result' = [op |-> "resolveIndirectlyDisabled", spec |-> t,
                           force |-> forceResolve, n |-> c.n, deep |-> c.deep,
                           balanced |-> c.asserted]
    /\ pc' = "called"
    /\ UNCHANGED <<specs, m_pluginToSpec, m_disabledPlugins, libVars, pluginWhichRequestedShutdown,
                   calls, lastDisabled, madePersistent, faults, opCount>>

NextResolver == ResolveAll \/ SetPersistent \/ SetEnabled \/ PropagateAll

SpecResolver == InitResolver /\ [][NextResolver]_vars

\* The resolver with single calls of resolveIndirectlyDisabled.
NextCalls == ResolveAll \/ SetEnabled \/ PropagateAll \/ PropagateOne

SpecCalls == InitResolver /\ [][NextCalls]_vars

\* ------------------------------------------- the queues of the manager

\* The specs as they would be handed on without the map: in the order of the
\* list.
nameSorted_Unsorted(hh, list, keys, i) == list

\* The values of a QMap<QString, PluginSpec *> filled by insert(name, spec)
\* with the specs of the list in turn: ascending by name, and of several
\* specs of one name the one inserted last.
RECURSIVE nameSorted(_, _, _, _)
nameSorted(hh, list, keys, i) ==
    IF i > Len(keys) THEN <<>>
    ELSE LET same == {j \in 1..Len(list) : hh[list[j]].name = keys[i]}
         IN (IF same = {} THEN <<>>
             ELSE <<list[CHOOSE j \in same : \A k \in same : k <= j]>>)
            \o nameSorted(hh, list, keys, i + 1)

\* The foreach of PluginManagerPrivate::loadQueue over the sorted specs.
RECURSIVE mgrLoadQueueEach(_, _, _)
mgrLoadQueueEach(c, sorted, i) ==
    IF i > Len(sorted) THEN c
    ELSE IF c.h[sorted[i]].state >= Resolved
    THEN mgrLoadQueueEach(loadQueue([c EXCEPT !.circ = <<>>], sorted[i]), sorted, i + 1)
    ELSE mgrLoadQueueEach(c, sorted, i + 1)

\* PluginManagerPrivate::loadQueue over the specs the manager holds (list:
\* the values of m_pluginToSpec in iteration order).
mgrLoadQueue(hh, list) ==
    mgrLoadQueueEach(QueueCall(hh, <<>>), nameSorted(hh, list, <<NoName>> \o NameOrder, 1), 1)

\* PluginManagerPrivate::unloadQueue over the specs the manager holds.
RECURSIVE mgrUnloadQueueEach(_, _, _)
mgrUnloadQueueEach(c, list, i) ==
    IF i > Len(list) THEN c
    ELSE IF c.h[list[i]].state >= Loaded
    THEN mgrUnloadQueueEach(unloadQueue([c EXCEPT !.circ = <<>>], list[i]), list, i + 1)
    ELSE mgrUnloadQueueEach(c, list, i + 1)

mgrUnloadQueue(hh, list) == mgrUnloadQueueEach(QueueCall(hh, <<>>), list, 1)

\* --------------------------------------------------- PluginManager

\* QMultiMap<IPlugin *, PluginSpec *>::insert: the entries of the null key
\* come first, the newest of them in front; an instance is the key of one
\* entry only, and where the entries of the instances stand among each other
\* is decided by their addresses (see UnloadPlugins).
mapInsert(map, key, spec) ==
    IF key = NullPlugin THEN <<(<<key, spec>>)>> \o map ELSE Append(map, <<key, spec>>)

\* The map as it would be if remove(key, value) were left out.
mapRemove_Nothing(map, key, spec) == map

\* QMultiMap::remove(key, value)
mapRemove(map, key, spec) == SelectSeq(map, LAMBDA e : e # <<key, spec>>)

\* QMultiMap::values()
mapValues(map) == [i \in 1..Len(map) |-> map[i][2]]

\* PluginManagerPrivate::plugins
plugins(map) == {map[i][1] : i \in 1..Len(map)} \ {NullPlugin}

\* One call of a PluginSpec or IPlugin method made by an operation of the
\* manager: the heap before and after it.
Call(op, t, pre, post) == [op |-> op, spec |-> t, pre |-> pre, post |-> post]

\* The manager is a record m: m.h the heap, m.map m_pluginToSpec, m.stack the
\* static stack of resolveIndirectlyDisabled, m.asserted whether every
\* Q_ASSERT held, m.calls the calls made, m.queue the queue the operation
\* built first, m.unloading the queue handed to unloadPlugins(queue),
\* m.initialized and m.ret the locals initialized and allInitialized, m.done
\* whether initializePlugins was left by return, m.shutdown is
\* pluginWhichRequestedShutdown.

\* m after a call c of resolveIndirectlyDisabled, and what such a call takes.
withContext(m, c) == [m EXCEPT !.h = c.h, !.stack = c.stack, !.asserted = c.asserted]
contextOf(m) == [h |-> m.h, stack |-> m.stack, asserted |-> m.asserted, n |-> 0, deep |-> 0]

\* m after a call r of a PluginSpec method that may fail a Q_ASSERT.
withHeap(m, r) == [m EXCEPT !.h = r.h, !.asserted = m.asserted /\ r.asserted]

\* The body of the second loop of PluginManagerPrivate::readPluginSpecs: the
\* spec t was read with result r, and is kept if read succeeded.
keepIfRead(m, t, r) ==
    [m EXCEPT !.h = r.h,
              !.map = IF r.ret THEN mapInsert(m.map, NullPlugin, t) ELSE m.map]

\* The second loop of PluginManagerPrivate::readPluginSpecs: a PluginSpec is
\* created and read for every file found.
RECURSIVE readPluginSpecs(_, _, _, _)
readPluginSpecs(m, found, files, i) ==
    IF i > Len(found) THEN m
    ELSE readPluginSpecs(keepIfRead(m, found[i], read(m.h, found[i], files[found[i]])),
                         found, files, i + 1)

\* The test of m_disabledPlugins in PluginManagerPrivate::resolveDependencies.
disableIfListed(hh, t, disabled) ==
    IF hh[t].name \in disabled THEN setEnabled(hh, t, FALSE) ELSE hh

\* The first loop of PluginManagerPrivate::resolveDependencies.
RECURSIVE mgrResolveEach(_, _, _, _)
mgrResolveEach(m, list, disabled, i) ==
    IF i > Len(list) THEN m
    ELSE mgrResolveEach(
             withHeap(m, resolveDependencies(disableIfListed(m.h, list[i], disabled),
                                             list[i], list)),
             list, disabled, i + 1)

\* The second loop of PluginManagerPrivate::resolveDependencies.
mgrPropagateEach(m, list) == withContext(m, propagateEach(contextOf(m), list, 1))

\* PluginManagerPrivate::resolveDependencies
mgrResolveDependencies(m, disabled) ==
    mgrPropagateEach(mgrResolveEach(m, mapValues(m.map), disabled, 1), mapValues(m.map))

\* The body of the foreach of PluginManagerPrivate::loadPlugins: loadPlugin
\* was called on t with result r.
afterLoadPlugin(m, t, r) ==
    [m EXCEPT !.h = r.h,
              !.asserted = m.asserted /\ r.asserted,
              !.calls = Append(m.calls, Call("loadPlugin", t, m.h, r.h)),
              !.map = IF r.h[t].plugin # NullPlugin
                      THEN mapInsert(mapRemove(m.map, NullPlugin, t), r.h[t].plugin, t)
                      ELSE m.map]

\* The foreach of PluginManagerPrivate::loadPlugins over the load queue; lib
\* tells what the library of each spec yields.
RECURSIVE loadEach(_, _, _, _)
loadEach(m, queue, lib, i) ==
    IF i > Len(queue) THEN m
    ELSE loadEach(afterLoadPlugin(m, queue[i], loadPlugin(m.h, queue[i], lib[queue[i]])),
                  queue, lib, i + 1)

\* The manager with the queue q it built (loadQueue() or unloadQueue()).
withQueue(m, q) ==
    [m EXCEPT !.h = q.h, !.asserted = m.asserted /\ q.asserted,
              !.queue = q.queue, !.unloading = q.queue]

\* QList<PluginSpec *> pluginLoadQueue = loadQueue();
withLoadQueue(m) == withQueue(m, mgrLoadQueue(m.h, mapValues(m.map)))

\* The foreach of PluginManagerPrivate::loadPlugins.
loadAll(m, lib) == loadEach(m, m.queue, lib, 1)

\* PluginManagerPrivate::loadPlugins for the spec files found (in the order
\* they were found in).
mgrLoadPlugins(m, found, files, disabled, lib) ==
    loadAll(withLoadQueue(mgrResolveDependencies(
                readPluginSpecs([m EXCEPT !.map = <<>>, !.calls = <<>>], found, files, 1),
                disabled)),
            lib)

\* The calls PluginSpecPrivate::unloadPlugin and its caller make for spec t.
unloadCalls(hh, t) ==
    (IF callsShutdown(hh, t) THEN <<Call("shutdown", t, hh, hh)>> ELSE <<>>)
        \o <<Call("unloadPlugin", t, hh, unloadPlugin(hh, t))>>

\* PluginManagerPrivate::unloadPlugins(unloadQueue)
RECURSIVE unloadEach(_, _, _)
unloadEach(m, queue, i) ==
    IF i > Len(queue) THEN m
    ELSE unloadEach([m EXCEPT !.h = unloadPlugin(m.h, queue[i]),
                              !.calls = m.calls \o unloadCalls(m.h, queue[i]),
                              !.map = mapInsert(mapRemove(m.map, m.h[queue[i]].plugin, queue[i]),
                                                NullPlugin, queue[i])],
                    queue, i + 1)

\* unloadPlugins(queue) for the queue last built.
unloadAll(m) == unloadEach(m, m.unloading, 1)

\* PluginManager::unloadPlugins; iter is the order in which m_pluginToSpec
\* is iterated.
mgrUnloadPlugins(m, iter) ==
    unloadAll(withQueue([m EXCEPT !.calls = <<>>], mgrUnloadQueue(m.h, iter)))

\* monitor->setStatus() and pluginSpec->initializePlugin() on t, with result r.
afterInitializePlugin(m, t, r) ==
    [m EXCEPT !.h = r.h,
              !.asserted = m.asserted /\ r.asserted,
              !.initialized = r.ret,
              !.ret = m.ret /\ r.ret,
              !.calls = m.calls \o <<Call("setStatus", t, m.h, m.h),
                                     Call("initialize", t, m.h, r.h)>>]

\* pluginSpec->unloadQueue(queue, circularity) on the spec t that failed.
withUnloadQueueOf(m, u) ==
    [m EXCEPT !.h = u.h, !.asserted = m.asserted /\ u.asserted, !.unloading = u.queue]

\* The else branch of initializePlugins as it would be without the update of
\* the indirectlyDisabled flags.
repropagate_None(m, t) == m

\* pluginSpec->resolveIndirectlyDisabled(true) on the spec t that failed.
repropagate(m, t) == withContext(m, resolveIndirectlyDisabled(contextOf(m), t, TRUE))

\* The else branch of initializePlugins as it would be without the unload
\* of the plugin that failed and of its dependents.
unloadDependents_None(m, t) == repropagate(m, t)

\* The else branch of initializePlugins for the spec t that failed: unload
\* the dependent plugins, update the indirectlyDisabled flags.
unloadDependents(m, t) ==
    repropagate(unloadAll(withUnloadQueueOf(m, unloadQueue(QueueCall(m.h, <<>>), t))), t)

\* The foreach of PluginManagerPrivate::initializePlugins from the i-th spec
\* of the load queue on; init tells what each plugin answers.
\* afterInitialize is the if (!initialized) of its body.
RECURSIVE initializeEach(_, _, _, _)
RECURSIVE afterInitialize(_, _, _, _)
initializeEach(m, queue, init, i) ==
    IF i > Len(queue) THEN m
    ELSE IF m.h[queue[i]].state # Loaded THEN initializeEach(m, queue, init, i + 1)
    ELSE afterInitialize(
             afterInitializePlugin(m, queue[i],
                                   initializePlugin(m.h, queue[i], init[queue[i]])),
             queue, init, i)

afterInitialize(m, queue, init, i) ==
    IF m.initialized THEN initializeEach(m, queue, init, i + 1)
    ELSE IF init[queue[i]] = "failShutdown"
    THEN [m EXCEPT !.done = TRUE, !.shutdown = m.h[queue[i]].name]
    ELSE initializeEach(unloadDependents(m, queue[i]), queue, init, i + 1)

\* initializePlugins as it would be if it emitted on the path left by return too.
emitPluginsInitialized_Always(m) ==
    [m EXCEPT !.calls = Append(m.calls, Call("pluginsInitialized", NoName, m.h, m.h))]

\* emit q->pluginsInitialized(), unless the loop was left by return.
emitPluginsInitialized(m) ==
    IF m.done THEN m
    ELSE [m EXCEPT !.calls = Append(m.calls, Call("pluginsInitialized", NoName, m.h, m.h))]

\* The foreach of PluginManagerPrivate::initializePlugins.
initializeAll(m, init) == initializeEach(m, m.queue, init, 1)

\* initializePlugins as it would be without pluginWhichRequestedShutdown.clear().
mgrInitializePlugins_KeepName(m, init) ==
    emitPluginsInitialized(
        initializeAll(withLoadQueue([m EXCEPT !.calls = <<>>, !.ret = TRUE, !.done = FALSE]),
                      init))

\* PluginManagerPrivate::initializePlugins
mgrInitializePlugins(m, init) ==
    emitPluginsInitialized(
        initializeAll(withLoadQueue([m EXCEPT !.calls = <<>>, !.ret = TRUE, !.done = FALSE,
                                              !.shutdown = NoName]),
                      init))

\* ------------------------------------------------- the application

\* The manager as the operators above take it.
Mgr ==
    [h |-> h, map |-> m_pluginToSpec, stack |-> resolvedPluginsStack, asserted |-> asserted,
     calls |-> calls, queue |-> <<>>, unloading |-> <<>>, initialized |-> TRUE,
     ret |-> TRUE, done |-> FALSE, shutdown |-> pluginWhichRequestedShutdown]

\* The variables an operation of the manager leaves as m has them.
MgrDone(m, op) ==
    /\ h' = m.h
    /\ m_pluginToSpec' = m.map
    /\ resolvedPluginsStack' = m.stack
    /\ asserted' = m.asserted
    /\ calls' = m.calls
    /\ pluginWhichRequestedShutdown' = m.shutdown
    /\ result' = [op |-> op, ret |-> m.ret, queue |-> m.queue]

\* The spec files and libraries with which something is wrong: a file that
\* cannot be parsed, a file with an element out of place, a library that is
\* no plugin, a library that does not load.
LoadFaults == {"malformed", "badDep", "notPlugin", "loadError"}

\* The dependency lists a spec file of plugin t may hold.
FileDeps(t) == {q \in DepLists : ~InSeq(t, q)}

\* PluginManager::PluginManager: restoreSettings reads the disabled names.
Init ==
    /\ h = [s \in Names |-> NewSpec]
    /\ specs = <<>>
    /\ m_pluginToSpec = <<>>
    /\ m_disabledPlugins \in {D \in SUBSET Names : Cardinality(D) <= MaxDisabled}
    /\ LibIdle
    /\ pluginWhichRequestedShutdown = NoName
    /\ resolvedPluginsStack = <<>>
    /\ pc = "start"
    /\ calls = <<>>
    /\ result = [op |-> "new", ret |-> TRUE, queue |-> <<>>]
    /\ asserted = TRUE
    /\ lastDisabled = NoName
    /\ madePersistent = {}
    /\ faults = 0
    /\ opCount = 0

\* What the files and libraries of the specs in created hold when those in
\* bad fail as how tells.
KindOf(created, bad, how) ==
    [t \in created |-> IF t \in bad /\ how[t] \in FileKinds THEN how[t] ELSE "ok"]
LibOf(created, bad, how) ==
    [t \in created |-> IF t \in bad /\ how[t] \in LibOutcomes THEN how[t] ELSE "ok"]
FilesOf(created, kind, deps) == [t \in created |-> SpecFile(t, kind[t], deps[t])]

\* loadPlugins has returned with the manager as m; the libraries in badLibs
\* were each asked for.
LoadPluginsReturns(m, badLibs) ==
    /\ \A t \in badLibs : InSeq(t, m.queue)
    /\ MgrDone(m, "loadPlugins")

\* PluginManager::loadPlugins(paths): the search finds some spec files, in
\* some order; the libraries load or not.
LoadPlugins ==
    /\ pc = "start"
    /\ \E created \in (SUBSET Names) \ {{}} :
       \E found \in Orderings(created) :
       \E deps \in [created -> DepLists] :
       \E bad \in {S \in SUBSET created : Cardinality(S) <= MaxFaults} :
       \E how \in [bad -> LoadFaults] :
          /\ \A t \in created : deps[t] \in FileDeps(t)
          /\ LoadPluginsReturns(mgrLoadPlugins(Mgr, found,
                                    FilesOf(created, KindOf(created, bad, how), deps),
                                    m_disabledPlugins, LibOf(created, bad, how)),
                     {t \in bad : how[t] \in LibOutcomes})
          /\ specs' = found
          /\ faults' = Cardinality(bad)
    /\ pc' = "loaded"
    /\ UNCHANGED <<m_disabledPlugins, libVars, lastDisabled, madePersistent, opCount>>

\* main(): setPersistent() on the spec of the core plugin; without one the
\* application ends.
MainSetPersistent ==
    /\ pc = "loaded"
    /\ LET core == {t \in SeqSet(mapValues(m_pluginToSpec)) : h[t].name = CoreName}
       IN /\ madePersistent' = madePersistent \cup core
          /\ IF core = {}
             THEN pc' = "exit" /\ h' = h
             ELSE /\ pc' = "persisted"
                  /\ h' = [t \in Names |-> IF t \in core THEN setPersistent(h, t, TRUE)[t]
                                          ELSE h[t]]
    /\ UNCHANGED <<specs, m_pluginToSpec, m_disabledPlugins, libVars, pluginWhichRequestedShutdown,
                   resolvedPluginsStack, calls, result, asserted, lastDisabled, faults, opCount>>

\* initializePlugins has returned with the manager as m; the plugins in bad
\* were each asked to initialize.
InitializePluginsReturns(m, bad) ==
    /\ \A t \in bad : \E i \in 1..Len(m.calls) :
                         m.calls[i].op = "initialize" /\ m.calls[i].spec = t
    /\ MgrDone(m, "initializePlugins")

\* PluginManager::initializePlugins(monitor): each plugin initializes or not.
InitializePlugins ==
    /\ pc = "persisted"
    /\ \E bad \in {S \in SUBSET Names : Cardinality(S) + faults <= MaxFaults} :
       \E how \in [bad -> InitOutcomes \ {"ok"}] :
          /\ InitializePluginsReturns(mgrInitializePlugins(
                              Mgr, [t \in Names |-> IF t \in bad THEN how[t] ELSE "ok"]),
                          bad)
          /\ faults' = faults + Cardinality(bad)
    /\ pc' = "initialized"
    /\ UNCHANGED <<specs, m_disabledPlugins, libVars, lastDisabled, madePersistent, opCount>>

\* The specs the manager holds.
Held == SeqSet(mapValues(m_pluginToSpec))

\* The orders in which PluginManagerPrivate::unloadQueue may visit the specs
\* the manager holds: by key, the keys being addresses.
IterationOrders ==
    LET entries == mapValues(m_pluginToSpec)
        unloaded == SelectSeq(entries, LAMBDA t : h[t].plugin = NullPlugin)
    IN {unloaded \o q : q \in Orderings({t \in Held : h[t].plugin # NullPlugin})}

\* PluginManager::unloadPlugins(). The entries of m_pluginToSpec are visited
\* in the order of their keys: the specs without instance first, the others
\* in the order of the addresses of their instances, which can be any.
UnloadPlugins ==
    /\ pc = "initialized"
    /\ \E iter \in IterationOrders : MgrDone(mgrUnloadPlugins(Mgr, iter), "unloadPlugins")
    /\ pc' = "unloaded"
    /\ UNCHANGED <<specs, m_disabledPlugins, libVars, lastDisabled, madePersistent, faults, opCount>>

Next == LoadPlugins \/ MainSetPersistent \/ InitializePlugins \/ UnloadPlugins

Spec == Init /\ [][Next]_vars

\* --------------------------------------------- the manager and the plugin view

\* How many times the view toggles a plugin or initializePlugins is called.
MaxViewOps == 3

\* PluginManager::loadPlugins(paths) on well-formed spec files whose
\* libraries load, before the plugin view is shown.
ViewLoadPlugins ==
    /\ pc = "start"
    /\ \E created \in (SUBSET Names) \ {{}} :
       \E deps \in [created -> DepLists] :
          /\ \A t \in created : deps[t] \in FileDeps(t)
          /\ MgrDone(mgrLoadPlugins(Mgr, SelectSeq(NameOrder, LAMBDA s : s \in created),
                                    FilesOf(created, [t \in created |-> "ok"], deps),
                                    m_disabledPlugins, [t \in created |-> "ok"]),
                     "loadPlugins")
          /\ specs' = SelectSeq(NameOrder, LAMBDA s : s \in created)
    /\ pc' = "view"
    /\ UNCHANGED <<m_disabledPlugins, libVars, lastDisabled, madePersistent, faults, opCount>>

\* updatePluginSettings as it would be without the foreach over
\* providesForSpecs().
toggle_FlagOnly(c, t, enabled) == [c EXCEPT !.h = setEnabled(c.h, t, enabled)]

\* PluginViewPrivate::updatePluginSettings for the item of one plugin: the
\* user changes its enabled flag, and the specs it provides for are told.
toggle(c, t, enabled) ==
    propagateEach([c EXCEPT !.h = setEnabled(c.h, t, enabled)], c.h[t].providesSpecs, 1)

\* The user checks or unchecks a plugin in the view.
ViewToggle ==
    /\ pc = "view" /\ asserted /\ opCount < MaxViewOps
    /\ \E t \in Held, enabled \in BOOLEAN :
          /\ h' = toggle(contextOf(Mgr), t, enabled).h
          /\ resolvedPluginsStack' = toggle(contextOf(Mgr), t, enabled).stack
          /\ asserted' = toggle(contextOf(Mgr), t, enabled).asserted
          /\ result' = [op |-> "toggle", ret |-> enabled, queue |-> <<t>>,
                         was |-> h[t].enabled]
    /\ opCount' = opCount + 1
    /\ UNCHANGED <<specs, m_pluginToSpec, m_disabledPlugins, libVars, pluginWhichRequestedShutdown,
                   pc, calls, lastDisabled, madePersistent, faults>>

\* What every plugin answers when those in bad fail as how tells.
InitOf(bad, how) == [t \in Names |-> IF t \in bad THEN how[t] ELSE "ok"]

\* PluginManager::initializePlugins(monitor), called while the view is shown;
\* each plugin initializes or not.
ViewInitializePlugins ==
    /\ pc = "view" /\ asserted /\ opCount < MaxViewOps
    /\ \E bad \in {S \in SUBSET Names : Cardinality(S) <= MaxFaults} :
       \E how \in [bad -> InitOutcomes \ {"ok"}] :
          InitializePluginsReturns(mgrInitializePlugins(Mgr, InitOf(bad, how)), bad)
    /\ opCount' = opCount + 1
    /\ UNCHANGED <<specs, m_disabledPlugins, libVars, pc, lastDisabled, madePersistent, faults>>

\* PluginManager::unloadPlugins(), called when the application ends, with
\* m_pluginToSpec iterated in any order of the addresses of the instances.
ViewUnloadPlugins ==
    /\ pc = "view" /\ asserted
    /\ \E iter \in IterationOrders : MgrDone(mgrUnloadPlugins(Mgr, iter), "unloadPlugins")
    /\ pc' = "closed"
    /\ UNCHANGED <<specs, m_disabledPlugins, libVars, lastDisabled, madePersistent, faults, opCount>>

NextView == ViewLoadPlugins \/ ViewToggle \/ ViewInitializePlugins \/ ViewUnloadPlugins

SpecView == Init /\ [][NextView]_vars

\* ------------------------------------- PluginSpec called without the manager

\* The PluginSpec objects the caller creates.
ApiSpecs == SubSeq(NameOrder, 1, 2)

\* The dependency lists of the spec files the caller reads.
ApiDeps == ListsUpTo(Names, 1)

\* The dependency lists the file of spec t may hold: none, one name, or the
\* names of all other plugins.
ApiDepsOf(t) == ApiDeps \cup {SelectSeq(NameOrder, LAMBDA s : s # t)}

\* The variables a PluginSpec operation called on spec t leaves as given.
ApiDone(op, t, hh, ret, ok) ==
    /\ asserted /\ opCount < MaxOps
    /\ h' = hh
    /\ result' = [op |-> op, spec |-> t, ret |-> ret, from |-> h[t].state]
    /\ asserted' = ok
    /\ opCount' = opCount + 1
    /\ UNCHANGED <<specs, m_pluginToSpec, m_disabledPlugins, libVars, pluginWhichRequestedShutdown,
                   pc, calls, lastDisabled, faults>>

InitApi ==
    /\ h = [s \in Names |-> NewSpec]
    /\ specs = ApiSpecs
    /\ m_pluginToSpec = <<>>
    /\ m_disabledPlugins = {}
    /\ pluginWhichRequestedShutdown = NoName
    /\ LibIdle
    /\ resolvedPluginsStack = <<>>
    /\ pc = "api"
    /\ calls = <<>>
    /\ result = [op |-> "new", spec |-> NoName, ret |-> TRUE, from |-> Invalid]
    /\ asserted = TRUE
    /\ lastDisabled = NoName
    /\ madePersistent = {}
    /\ faults = 0
    /\ opCount = 0

\* PluginSpec::read on the file of the spec, whatever the file holds.
ApiRead ==
    \E t \in SeqSet(specs), kind \in FileKinds : \E deps \in ApiDepsOf(t) :
        /\ kind \notin {"ok", "malformed", "badDep"} => deps = <<>>
        /\ LET r == read(h, t, SpecFile(t, kind, deps))
           IN ApiDone("read", t, r.h, r.ret, TRUE)
        /\ UNCHANGED <<resolvedPluginsStack, madePersistent>>

\* PluginSpec::resolveDependecies(specs)
ApiResolveDependencies ==
    \E t \in SeqSet(specs) :
        /\ LET r == resolveDependencies(h, t, specs)
           IN ApiDone("resolveDependencies", t, r.h, r.ret, r.asserted)
        /\ UNCHANGED <<resolvedPluginsStack, madePersistent>>

\* PluginSpec::resolveIndirectlyDisabled(forceResolve)
ApiResolveIndirectlyDisabled ==
    \E t \in SeqSet(specs), forceResolve \in BOOLEAN :
        LET c == propagate(h, resolvedPluginsStack, t, forceResolve)
        IN /\ ApiDone("resolveIndirectlyDisabled", t, c.h, TRUE, c.asserted)
           /\ resolvedPluginsStack' = c.stack
           /\ UNCHANGED madePersistent

\* PluginSpec::setEnabled(enabled)
ApiSetEnabled ==
    \E t \in SeqSet(specs), enabled \in BOOLEAN :
        /\ ApiDone("setEnabled", t, setEnabled(h, t, enabled), TRUE, TRUE)
        /\ UNCHANGED <<resolvedPluginsStack, madePersistent>>

\* PluginSpec::loadPlugin
ApiLoadPlugin ==
    \E t \in SeqSet(specs), lib \in LibOutcomes :
        /\ LET r == loadPlugin(h, t, lib)
           IN ApiDone("loadPlugin", t, r.h, r.h[t].plugin # NullPlugin, r.asserted)
        /\ UNCHANGED <<resolvedPluginsStack, madePersistent>>

\* PluginSpec::initializePlugin
ApiInitializePlugin ==
    \E t \in SeqSet(specs), init \in InitOutcomes :
        /\ LET r == initializePlugin(h, t, init)
           IN ApiDone("initializePlugin", t, r.h, r.ret, r.asserted)
        /\ UNCHANGED <<resolvedPluginsStack, madePersistent>>

\* PluginSpec::unloadPlugin
ApiUnloadPlugin ==
    \E t \in SeqSet(specs) :
        /\ ApiDone("unloadPlugin", t, unloadPlugin(h, t), TRUE, TRUE)
        /\ UNCHANGED <<resolvedPluginsStack, madePersistent>>

\* PluginSpec::setPersistent(persistent)
ApiSetPersistent ==
    \E t \in SeqSet(specs), persistent \in BOOLEAN :
        /\ ApiDone("setPersistent", t, setPersistent(h, t, persistent), TRUE, TRUE)
        /\ madePersistent' = IF persistent THEN madePersistent \cup {t} ELSE madePersistent
        /\ UNCHANGED resolvedPluginsStack

\* PluginSpec::loadQueue(queue, circularity), called with both lists empty.
ApiLoadQueue ==
    \E t \in SeqSet(specs) :
        /\ LET r == loadQueue(QueueCall(h, <<>>), t)
           IN ApiDone("loadQueue", t, r.h, r.ret, r.asserted)
        /\ UNCHANGED <<resolvedPluginsStack, madePersistent>>

\* PluginSpec::unloadQueue(queue, circularity), called with both lists empty.
ApiUnloadQueue ==
    \E t \in SeqSet(specs) :
        /\ LET r == unloadQueue(QueueCall(h, <<>>), t)
           IN ApiDone("unloadQueue", t, r.h, r.ret, r.asserted)
        /\ UNCHANGED <<resolvedPluginsStack, madePersistent>>

NextApi ==
    \/ ApiRead
    \/ ApiResolveDependencies
    \/ ApiResolveIndirectlyDisabled
    \/ ApiSetEnabled
    \/ ApiLoadPlugin
    \/ ApiInitializePlugin
    \/ ApiUnloadPlugin
    \/ ApiSetPersistent
    \/ ApiLoadQueue
    \/ ApiUnloadQueue

SpecApi == InitApi /\ [][NextApi]_vars

\* ------------------------------------------------ the dependency graph

Created == SeqSet(specs)

\* The specs that t depends on through at most n resolved edges.
RECURSIVE dependsWithin(_, _, _)
dependsWithin(hh, t, n) ==
    IF n = 0 THEN {}
    ELSE LET direct == SeqSet(hh[t].dependencySpecs)
         IN direct \cup UNION {dependsWithin(hh, d, n - 1) : d \in direct}

\* t depends on x, directly or through other specs.
DependsOn(hh, t, x) == x \in dependsWithin(hh, t, Len(NameOrder))

Acyclic(hh) == \A t \in Names : ~DependsOn(hh, t, t)

AllResolved == \A t \in Created : h[t].state = Resolved /\ ~h[t].hasError

HasErrorLine(hh, t, text) ==
    \E i \in 1..Len(hh[t].errorString) : hh[t].errorString[i][1] = text

\* ------------------------------------------------ the calls of the manager

\* The i-th call of the last operation is a call of op.
IsCall(i, op) == calls[i].op = op

\* Some call of op on spec t was made before the i-th call.
CalledBefore(i, op, t) == \E j \in 1..(i - 1) : calls[j].op = op /\ calls[j].spec = t

\* ----------------------------------------------------------------- C1
\* C1: in loadPlugins the load queue holds every spec after all of its
\* dependencySpecs, and loadPlugin is called on a spec only after the call
\* of loadPlugin on each of its dependencySpecs has returned.
C1_LoadAfterDependencies ==
    result.op = "loadPlugins" =>
        /\ \A i \in 1..Len(result.queue) :
              \A d \in SeqSet(h[result.queue[i]].dependencySpecs) :
                 \E j \in 1..(i - 1) : result.queue[j] = d
        /\ \A i \in 1..Len(calls) :
              IsCall(i, "loadPlugin") =>
                 \A d \in SeqSet(calls[i].pre[calls[i].spec].dependencySpecs) :
                    CalledBefore(i, "loadPlugin", d)

\* A spec with two dependencies was loaded after both.
C1_Witness ==
    /\ result.op = "loadPlugins"
    /\ \E i \in 1..Len(calls) :
          /\ IsCall(i, "loadPlugin")
          /\ Len(calls[i].pre[calls[i].spec].dependencySpecs) = 2
          /\ calls[i].post[calls[i].spec].state = Loaded

\* ----------------------------------------------------------------- C2
\* C2: whenever the manager calls shutdown or unloadPlugin on a spec B that
\* holds an instance, every spec A with B in A.dependencySpecs holds none:
\* unloadPlugin on A has returned before, in PluginManager::unloadPlugins
\* (for every iteration order) and in the unload after a failed initialize.
C2_UnloadBeforeDependencies ==
    \A i \in 1..Len(calls) :
        (/\ IsCall(i, "shutdown") \/ IsCall(i, "unloadPlugin")
         /\ calls[i].pre[calls[i].spec].plugin # NullPlugin)
            => \A a \in Names :
                  InSeq(calls[i].spec, calls[i].pre[a].dependencySpecs)
                     => calls[i].pre[a].plugin = NullPlugin

\* unloadPlugins shut down and unloaded a spec and then one it depends on.
C2_Witness ==
    /\ result.op = "unloadPlugins"
    /\ \E i, j \in 1..Len(calls) :
          /\ i < j
          /\ IsCall(i, "unloadPlugin") /\ IsCall(j, "shutdown")
          /\ calls[i].pre[calls[i].spec].plugin # NullPlugin
          /\ InSeq(calls[j].spec, calls[i].pre[calls[i].spec].dependencySpecs)

\* ----------------------------------------------------------------- C3
\* In heap hh every Initialized spec has only Initialized dependencySpecs.
InitializedClosed(hh) ==
    \A t \in Names :
        hh[t].state = Initialized =>
            \A d \in SeqSet(hh[t].dependencySpecs) : hh[d].state = Initialized

\* C3: initializePlugins calls initialize on a spec only when all of its
\* dependencySpecs are Initialized, and before and after every call the
\* manager makes, no Initialized spec has a dependency that is not.
C3_InitializeAfterDependencies ==
    /\ InitializedClosed(h)
    /\ \A i \in 1..Len(calls) :
          /\ InitializedClosed(calls[i].pre) /\ InitializedClosed(calls[i].post)
          /\ IsCall(i, "initialize") =>
                \A d \in SeqSet(calls[i].pre[calls[i].spec].dependencySpecs) :
                   calls[i].pre[d].state = Initialized

\* A spec with two dependencies was initialized.
C3_Witness ==
    /\ result.op = "initializePlugins"
    /\ \E i \in 1..Len(calls) :
          /\ IsCall(i, "initialize")
          /\ Len(calls[i].pre[calls[i].spec].dependencySpecs) = 2
          /\ calls[i].post[calls[i].spec].state = Initialized

\* ----------------------------------------------------------------- C4
\* Spec t is one whose dependents have to be indirectly disabled.
Unusable(hh, t) ==
    hh[t].hasError \/ hh[t].indirectlyDisabled \/ ~isEnabled(hh, t) \/ hh[t].initializationFailed

\* C4: when loadPlugins, initializePlugins or unloadPlugins has returned,
\* every spec that depends on a spec with an error, indirectly disabled, not
\* enabled or failed to initialize is indirectly disabled.
C4_DependentsDisabled ==
    pc \in {"loaded", "initialized", "unloaded"} =>
        \A a, b \in Held :
            (InSeq(a, h[b].dependencySpecs) /\ Unusable(h, a)) => h[b].indirectlyDisabled

\* ----------------------------------------------------------------- C9
\* C9: when the loaded specs are the enabled ones, the unload queue of the
\* manager is the reverse of its load queue, in whatever order the manager
\* iterates over its specs.
C9_UnloadReversesLoad ==
    (/\ pc \in {"loaded", "persisted", "initialized"}
     /\ {t \in Held : h[t].state >= Loaded} = {t \in Held : isEnabled(h, t)})
        => \A iter \in IterationOrders :
              mgrUnloadQueue(h, iter).queue
                 = Reverse(mgrLoadQueue(h, mapValues(m_pluginToSpec)).queue)

\* ----------------------------------------------------------------- C5
\* C5 as stated: on a resolved acyclic set of enabled error-free specs,
\* after setEnabled(false) on X and resolveIndirectlyDisabled(true) on every
\* spec, a spec is indirectly disabled iff it depends on X.
C5_AsStated ==
    (pc = "propagated" /\ lastDisabled # NoName /\ AllResolved /\ Acyclic(h))
        => \A t \in Created : h[t].indirectlyDisabled <=> DependsOn(h, t, lastDisabled)

\* C5 amended: the same for a spec X that is not persistent (setEnabled(false)
\* leaves a persistent spec enabled, and then no spec is indirectly disabled).
C5_DisabledClosure ==
    (pc = "propagated" /\ lastDisabled # NoName /\ AllResolved /\ Acyclic(h))
        => IF h[lastDisabled].persistent
           THEN \A t \in Created : ~h[t].indirectlyDisabled
           ELSE \A t \in Created : h[t].indirectlyDisabled <=> DependsOn(h, t, lastDisabled)

\* A chain C -> B -> A with A disabled: B and C were marked.
C5_Witness ==
    /\ pc = "propagated" /\ AllResolved /\ Acyclic(h)
    /\ lastDisabled # NoName /\ ~h[lastDisabled].enabled
    /\ \E t, u \in Created : /\ t # u
                             /\ h[t].dependencySpecs = <<lastDisabled>>
                             /\ h[u].dependencySpecs = <<t>>
                             /\ h[t].indirectlyDisabled /\ h[u].indirectlyDisabled

\* ----------------------------------------------------------------- C6
\* C6: once resolveDependencies ran on every spec (with or without
\* success), A is in B.dependencySpecs iff B is in A.providesSpecs.
C6_EdgeSymmetry ==
    pc # "read" =>
        \A a, b \in Created : InSeq(a, h[b].dependencySpecs) <=> InSeq(b, h[a].providesSpecs)

\* ----------------------------------------------------------------- C7
\* The three created specs form one dependency cycle of length three.
ThreeCycle ==
    /\ Created = Names
    /\ \A t \in Names : Len(h[t].dependencies) = 1 /\ h[t].dependencies[1] # t
    /\ \A t, u \in Names : t # u => h[t].dependencies # h[u].dependencies

\* C7: on a three-node cycle resolveDependencies succeeds on each spec;
\* after resolveIndirectlyDisabled(true) on every spec, in any order, each
\* spec has circularDependencyDetected and indirectlyDisabled set and an
\* error line "Circular dependency detected", loadQueue returns false for
\* each and the load queue is empty.
C7_CycleReporting ==
    ThreeCycle =>
        /\ pc # "read" => \A t \in Names : /\ h[t].state = Resolved
                                           /\ Len(h[t].dependencySpecs) = 1
        /\ pc = "propagated" =>
              /\ \A t \in Names :
                    /\ h[t].circularDependencyDetected
                    /\ h[t].indirectlyDisabled
                    /\ HasErrorLine(h, t, "Circular dependency detected")
                    /\ ~loadQueue(QueueCall(h, <<>>), t).ret
              /\ mgrLoadQueue(h, specs).queue = <<>>

C7_Witness == ThreeCycle /\ pc = "propagated" /\ h["A"].dependencies = <<"B">>

\* ----------------------------------------------------------------- C8
\* The specs loadQueue may emit: resolved, enabled, not indirectly disabled.
Eligible(hh) ==
    {t \in Created : hh[t].state >= Resolved /\ hh[t].enabled /\ ~hh[t].indirectlyDisabled}

\* C8: after resolveDependencies and resolveIndirectlyDisabled(true) on
\* every spec, the load queue of the manager holds each spec at most once
\* and holds exactly the resolved, enabled, not indirectly disabled specs.
C8_LoadQueueExact ==
    pc = "propagated" =>
        LET q == mgrLoadQueue(h, specs).queue
        IN NoDup(q) /\ SeqSet(q) = Eligible(h)

\* B depends on A, A was disabled: the load queue of {A, B} is empty.
C8_Witness ==
    /\ pc = "propagated"
    /\ specs = <<"A", "B">>
    /\ h["B"].dependencySpecs = <<"A">>
    /\ ~h["A"].enabled /\ h["B"].indirectlyDisabled
    /\ mgrLoadQueue(h, specs).queue = <<>>

\* ---------------------------------------------------------------- C10
\* The operation op moved the state of spec t from a to b in this step.
Moved(t, op, a, b) == result'.op = op /\ h[t].state \in a /\ h'[t].state \in b

\* The state changes that go one step forward.
StepForward(t) ==
    \/ Moved(t, "read", {Invalid}, {Read})
    \/ Moved(t, "resolveDependencies", {Read}, {Resolved})
    \/ Moved(t, "loadPlugin", {Resolved}, {Loaded})
    \/ Moved(t, "initializePlugin", {Loaded}, {Initialized})

\* The state changes to a lower state that C10 names.
StepBack(t) ==
    \/ Moved(t, "resolveDependencies", {Resolved}, {Read})
    \/ Moved(t, "unloadPlugin", {Loaded, Initialized}, {Resolved})

\* C10 as stated: an operation (whose Q_ASSERTs hold) lowers the state of a
\* spec only from Resolved to Read in resolveDependencies and from Loaded or
\* Initialized to Resolved in unloadPlugin; it raises it only by one step.
C10_AsStated ==
    [][asserted' =>
          \A t \in Names : /\ h'[t].state < h[t].state => StepBack(t)
                           /\ h'[t].state > h[t].state => StepForward(t)]_vars

\* C10 amended: read, too, lowers the state: it resets the spec, which ends
\* Invalid when the file cannot be read and Read when it can.
C10_StateChanges ==
    [][asserted' =>
          \A t \in Names :
             /\ h'[t].state < h[t].state =>
                   \/ StepBack(t)
                   \/ Moved(t, "read", {Read, Resolved, Loaded, Initialized}, {Invalid, Read})
             /\ h'[t].state > h[t].state => StepForward(t)]_vars

\* An Initialized spec was unloaded and is Resolved again.
C10_Witness ==
    /\ pc = "api" /\ asserted
    /\ result.op = "unloadPlugin"
    /\ result.from = Initialized
    /\ h[result.spec].state = Resolved
    /\ h[result.spec].plugin = NullPlugin

\* ---------------------------------------------------- load / unload round trip

\* The fields of a spec that loading and unloading its plugin leave alone.
Identity(hh, t) ==
    <<hh[t].name, hh[t].dependencies, hh[t].dependencySpecs, hh[t].providesSpecs,
      hh[t].enabled, hh[t].indirectlyDisabled>>

\* The heap after loadPlugin, with a library that loads, followed by unloadPlugin.
LoadUnload(hh, t) == unloadPlugin(loadPlugin(hh, t, "ok").h, t)

\* C11: for a spec in state Resolved whose library loads, loadPlugin followed
\* by unloadPlugin leaves the spec in state Resolved with no plugin instance
\* and with its name, dependencies, dependencySpecs, providesSpecs, enabled
\* and indirectlyDisabled as they were before the two calls.
C11_LoadUnloadRoundTrip ==
    \A t \in SeqSet(specs) :
        h[t].state = Resolved =>
            /\ LoadUnload(h, t)[t].state = Resolved
            /\ LoadUnload(h, t)[t].plugin = NullPlugin
            /\ Identity(LoadUnload(h, t), t) = Identity(h, t)

\* An unloadPlugin call has just taken a spec from Loaded back to Resolved and
\* loading it again would take effect.
C11_Witness ==
    /\ result.op = "unloadPlugin" /\ result.from = Loaded
    /\ h[result.spec].state = Resolved /\ h[result.spec].plugin = NullPlugin
    /\ loadPlugin(h, result.spec, "ok").h[result.spec].state = Loaded

\* ------------------------------------------------ initializePlugins

\* The positions in the calls of the last operation of the manager at which
\* pluginsInitialized() was emitted.
Emissions == {i \in 1..Len(calls) : calls[i].op = "pluginsInitialized"}

\* initializePlugins has just returned.
InitializeReturned == pc = "initialized" /\ result.op = "initializePlugins"

\* C13 as stated: every call of initializePlugins emits pluginsInitialized
\* exactly once before it returns, also when a plugin that failed to
\* initialize requested shutdown.
C13_AsStated == InitializeReturned => Cardinality(Emissions) = 1

\* C13: a call of initializePlugins emits pluginsInitialized exactly once, as
\* the last thing it does, when all plugins initialized and when some failed
\* without requesting shutdown; when a plugin that failed requested shutdown
\* it returns without emitting.
C13_EmittedUnlessShutdown ==
    InitializeReturned =>
        IF pluginWhichRequestedShutdown # NoName
        THEN Emissions = {}
        ELSE Emissions = {Len(calls)}

\* initializePlugins returned after a second plugin, initialized after a
\* first one, failed and requested shutdown.
C13_Witness ==
    /\ InitializeReturned
    /\ pluginWhichRequestedShutdown # NoName
    /\ \E i \in 1..Len(calls) : calls[i].op = "initialize" /\ calls[i].post[calls[i].spec].state = Initialized

\* The i-th call of initializePlugins is an initialize that failed.
FailedAt(i) ==
    IsCall(i, "initialize") /\ calls[i].post[calls[i].spec].state # Initialized

\* The specs that depended on t and held an instance when t failed at call i.
LoadedDependents(i) ==
    {d \in Names : /\ DependsOn(calls[i].pre, d, calls[i].spec)
                   /\ calls[i].pre[d].plugin # NullPlugin}

\* Some call of op on spec t was made after the i-th call.
CalledAfter(i, op, t) ==
    \E j \in (i + 1)..Len(calls) : calls[j].op = op /\ calls[j].spec = t

\* C15: when initialize of a plugin fails and no shutdown is requested,
\* initializePlugins sets initializationFailed on the spec, unloads every
\* spec that depends on it and holds an instance, leaves each of these
\* indirectly disabled, calls initialize on none of them afterwards, and
\* calls initialize on every later spec of the load queue that is Loaded
\* and does not depend on the one that failed.
C15_FailureUnloadsDependents ==
    (InitializeReturned /\ pluginWhichRequestedShutdown = NoName) =>
        \A i \in 1..Len(calls) :
            FailedAt(i) =>
                /\ calls[i].post[calls[i].spec].initializationFailed
                /\ h[calls[i].spec].initializationFailed
                /\ \A d \in LoadedDependents(i) :
                      /\ CalledAfter(i, "unloadPlugin", d)
                      /\ h[d].plugin = NullPlugin
                      /\ h[d].indirectlyDisabled
                      /\ ~CalledAfter(i, "initialize", d)
                /\ \A k \in 1..Len(result.queue) :
                      (/\ calls[i].pre[result.queue[k]].state = Loaded
                       /\ result.queue[k] # calls[i].spec
                       /\ result.queue[k] \notin LoadedDependents(i))
                          => CalledAfter(i, "initialize", result.queue[k])

\* A plugin failed to initialize without requesting shutdown; a dependent of
\* it was unloaded and a later plugin that does not depend on it initialized.
C15_Witness ==
    /\ InitializeReturned /\ pluginWhichRequestedShutdown = NoName
    /\ \E i \in 1..Len(calls) :
          /\ FailedAt(i)
          /\ LoadedDependents(i) # {}
          /\ \E t \in Names \ LoadedDependents(i) :
                /\ CalledAfter(i, "initialize", t)
                /\ h[t].state = Initialized

\* ------------------------------------------------ spec files that fail to read

\* The specs created by loadPlugins whose read returned false.
ReadFailed == {t \in SeqSet(specs) : h[t].state = Invalid}

\* C17: when loadPlugins has returned, every spec whose read failed is among
\* pluginSpecs(), in state Invalid with its error, and is not in the load
\* queue nor a dependencySpec of any spec.
C17_FailedReadsKept ==
    (pc = "loaded" /\ result.op = "loadPlugins") =>
        \A t \in ReadFailed :
            /\ InSeq(t, mapValues(m_pluginToSpec))
            /\ h[t].hasError /\ h[t].errorString # <<>>
            /\ ~InSeq(t, result.queue)
            /\ \A a \in Names : ~InSeq(t, h[a].dependencySpecs)

\* ----------------------------------------------------------------- read

\* C16: when read has recorded an error, the spec is Invalid and read has
\* returned false; read returns true with state Read and enabled set only
\* when hasError is false after the call.
C16_ReadErrorsInvalid ==
    (pc = "api" /\ result.op = "read") =>
        /\ h[result.spec].hasError =>
              (h[result.spec].state = Invalid /\ ~result.ret)
        /\ (result.ret /\ h[result.spec].state = Read /\ h[result.spec].enabled)
              => ~h[result.spec].hasError

\* -------------------------------------------------- resolveDependencies

\* The declared dependency names of spec t that no spec of the list bears.
MissingNames(hh, t, list) ==
    {hh[t].dependencies[i] : i \in 1..Len(hh[t].dependencies)}
        \ {hh[list[i]].name : i \in 1..Len(list)}

\* Spec t has the message that its dependency on name could not be resolved.
Unresolved(hh, t, name) ==
    \E i \in 1..Len(hh[t].errorString) :
        hh[t].errorString[i] = <<"could not resolve dependency on", name>>

\* What C18 says of a call of resolveDependencies on spec t that took the
\* heap from hh to hh2 and returned ret.
ResolvedAsDeclared(hh, hh2, t, list, ret) ==
    IF MissingNames(hh, t, list) # {}
    THEN /\ \A name \in MissingNames(hh, t, list) : Unresolved(hh2, t, name)
         /\ hh2[t].hasError /\ ~ret /\ hh2[t].state # Resolved
    ELSE /\ hh2[t].state = Resolved
         /\ Len(hh2[t].dependencySpecs) = Len(hh[t].dependencies)
         /\ \A i \in 1..Len(hh[t].dependencies) :
               hh2[hh2[t].dependencySpecs[i]].name = hh[t].dependencies[i]

\* C18 as stated: after every call of resolveDependencies on a spec, each
\* declared name that no spec of the list bears has its message, hasError is
\* set, the call returned false and the spec is not Resolved; when every
\* name is found the spec is Resolved with one edge per declared dependency.
C18_AsStated ==
    [][(result'.op = "resolveDependencies" /\ asserted')
          => ResolvedAsDeclared(h, h', result'.spec, specs, result'.ret)]_vars

\* C18: the same for every call made on a spec that has no error when
\* resolveDependencies is called; on a spec that has one the call returns
\* false and changes nothing.
C18_ResolvesOrReportsAll ==
    [][(result'.op = "resolveDependencies" /\ asserted')
          => IF h[result'.spec].hasError
             THEN h' = h /\ ~result'.ret
             ELSE ResolvedAsDeclared(h, h', result'.spec, specs, result'.ret)]_vars

\* resolveDependencies was called on a spec without error that declares two
\* names no spec bears, and has reported both.
C18_Witness ==
    /\ result.op = "resolveDependencies" /\ ~result.ret
    /\ Len(h[result.spec].errorString) = 2
    /\ Cardinality(MissingNames(h, result.spec, specs)) = 2
    /\ \A name \in MissingNames(h, result.spec, specs) : Unresolved(h, result.spec, name)

\* ------------------------------------------------------------ persistent

\* Spec t counts as enabled, setEnabled(false) does nothing to it, and its
\* enabled flag is set once it is read.
AlwaysEnabled(hh, t) ==
    /\ isEnabled(hh, t)
    /\ setEnabled(hh, t, FALSE) = hh
    /\ hh[t].state >= Read => hh[t].enabled

\* C19 as stated: every spec on which setPersistent(true) has been called
\* is enabled from then on, whatever is called afterwards without failing
\* a Q_ASSERT.
C19_AsStated == asserted => \A t \in madePersistent : AlwaysEnabled(h, t)

\* C19: as long as no Q_ASSERT has failed, every spec whose persistent flag
\* is set (setPersistent(true) was called on it and setPersistent(false)
\* was not called since) is enabled, setEnabled(false) changes no field of
\* it, and its enabled flag is set whenever its state is Read or higher.
C19_PersistentEnabled ==
    asserted =>
        \A t \in SeqSet(specs) :
            h[t].persistent => (t \in madePersistent /\ AlwaysEnabled(h, t))

\* setEnabled was called on a persistent spec that had been read.
C19_Witness ==
    /\ pc = "api" /\ result.op = "setEnabled"
    /\ h[result.spec].persistent /\ h[result.spec].state >= Read
    /\ h[result.spec].enabled

\* ---------------------------------------------------------------- errors

\* Sequence p is a prefix of sequence q.
IsPrefix(p, q) == Len(p) <= Len(q) /\ SubSeq(q, 1, Len(p)) = p

\* From heap hh to heap hh2 no spec lost its error flag or a line of its
\* error string.
ErrorsKept(hh, hh2) ==
    \A t \in Names :
        /\ hh[t].hasError => hh2[t].hasError
        /\ IsPrefix(hh[t].errorString, hh2[t].errorString)

\* C20: every operation of a spec other than read (resolveDependencies,
\* resolveIndirectlyDisabled, loadQueue, unloadQueue, loadPlugin,
\* initializePlugin, unloadPlugin, setEnabled, setPersistent) leaves hasError
\* set where it was set and the error string of every spec as a prefix of
\* the new one.
C20_ErrorsAccumulate ==
    [][result'.op # "read" => ErrorsKept(h, h')]_vars

\* loadPlugin has added a second line to the error string of a spec that
\* had an error from an earlier loadPlugin.
C20_Witness ==
    /\ pc = "api" /\ asserted /\ result.op = "loadPlugin"
    /\ h[result.spec].hasError
    /\ Len(h[result.spec].errorString) = 2

\* ------------------------------------------- what initializePlugins returns

\* The specs that hold a plugin instance in heap hh.
HoldingPlugin(hh) == {t \in Names : hh[t].plugin # NullPlugin}

\* C12: initializePlugins returns true if and only if every spec that holds
\* a plugin instance when the call starts is Initialized when it returns,
\* also the specs that were disabled, or became indirectly disabled, after
\* they had been loaded.
C12_TrueIffAllInitialized ==
    [][result'.op = "initializePlugins"
          => (result'.ret <=> \A t \in HoldingPlugin(h) : h'[t].state = Initialized)]_vars

\* ------------------------------------------------- a plugin requests shutdown

\* PluginManager::isShutdownRequested(pluginName): the value returned and
\* the name filled in.
isShutdownRequested(name) == [ret |-> name # NoName, pluginName |-> name]

\* Only spec t fails to initialize, and its plugin requests shutdown.
OnlyShutdown(t) == [x \in Names |-> IF x = t THEN "failShutdown" ELSE "ok"]

\* Every plugin initializes.
AllOk == [x \in Names |-> "ok"]

\* The manager m is m0 after a call of initializePlugins in which the plugin
\* of t, if asked, failed and requested shutdown. If it was asked, the call
\* ended there: it returned false, the failed initialize is its last call,
\* nothing was unloaded, and the manager tells the name of t. If it was not
\* asked, no name is recorded, whatever was recorded before.
StoppedAt(m0, m, t) ==
    IF \E i \in 1..Len(m.calls) : m.calls[i].op = "initialize" /\ m.calls[i].spec = t
    THEN /\ ~m.ret
         /\ m.calls[Len(m.calls)].op = "initialize" /\ m.calls[Len(m.calls)].spec = t
         /\ \A i \in 1..Len(m.calls) : m.calls[i].op \notin {"unloadPlugin", "shutdown"}
         /\ HoldingPlugin(m.h) = HoldingPlugin(m0.h)
         /\ m.map = m0.map
         /\ isShutdownRequested(m.shutdown) = [ret |-> TRUE, pluginName |-> m0.h[t].name]
    ELSE ~isShutdownRequested(m.shutdown).ret

\* C14: in every state in which initializePlugins can be called, a call in
\* which a plugin fails to initialize and requests shutdown returns false at
\* once, with no later initialize and no unload, and the manager's
\* isShutdownRequested then returns true with the name of that plugin; a call
\* in which no plugin requests shutdown leaves no name recorded, also when
\* the call before had recorded one.
C14_ShutdownStopsInitialize ==
    (pc = "view" /\ asserted) =>
        /\ \A t \in Names : StoppedAt(Mgr, mgrInitializePlugins(Mgr, OnlyShutdown(t)), t)
        /\ ~isShutdownRequested(mgrInitializePlugins(Mgr, AllOk).shutdown).ret

\* initializePlugins has returned because a plugin requested shutdown, with a
\* loaded spec of the load queue left uninitialized; the name is recorded
\* when the next call is made.
C14_Witness ==
    /\ pc = "view" /\ asserted /\ result.op = "initializePlugins"
    /\ isShutdownRequested(pluginWhichRequestedShutdown).ret
    /\ calls[Len(calls)].op = "initialize"
    /\ \E i, j \in 1..Len(result.queue) :
          /\ i < j
          /\ result.queue[i] = calls[Len(calls)].spec
          /\ h[result.queue[j]].state = Loaded

\* ------------------------------------------------------------ unloadPlugins

\* C21: when unloadPlugins returns no spec holds a plugin instance: every
\* spec that was Loaded or Initialized is Resolved without instance, and
\* plugins() is empty, whatever was enabled or disabled since loading.
C21_UnloadsEveryPlugin ==
    [][result'.op = "unloadPlugins"
          => /\ \A t \in Names :
                   /\ h[t].state >= Loaded => h'[t].state = Resolved
                   /\ h'[t].plugin = NullPlugin
             /\ plugins(m_pluginToSpec') = {}]_vars

\* unloadPlugins has unloaded a spec that was disabled after it was loaded.
C21_Witness ==
    /\ pc = "closed" /\ result.op = "unloadPlugins"
    /\ \E i \in 1..Len(calls) :
          /\ IsCall(i, "unloadPlugin")
          /\ calls[i].pre[calls[i].spec].plugin # NullPlugin
          /\ ~calls[i].pre[calls[i].spec].enabled
          /\ calls[i].post[calls[i].spec].state = Resolved

\* ------------------------------------------------- Utils::DependencyGraph

\* The node values of the graphs of QString: one-letter strings, ordered as
\* QString::operator< orders them.
Letters == <<"A", "B", "C", "D", "E", "F", "G", "H", "I">>

\* operator< of the node type T: "QString", "int" or "SlaveNode", which is
\* QPair<int, int> and is ordered by first, then by second.
lessThan(T, a, b) ==
    CASE T = "QString" -> IndexOf(a, Letters) < IndexOf(b, Letters)
      [] T = "int" -> a < b
      [] OTHER -> a[1] < b[1] \/ (a[1] = b[1] /\ a[2] < b[2])

\* DependencyGraph<T, sortIndependent>::DependencyGraph. m_edges is the
\* vector of bit arrays, one row for each dependent node index.
NewGraph(T, sortIndependent) ==
    [T |-> T, sortIndependent |-> sortIndependent,
     m_nodes |-> <<>>, m_edges |-> <<>>, m_cacheIsValid |-> FALSE, m_cache |-> <<>>]

\* DependencyGraph::addNode
dgAddNode(g, node) ==
    [g EXCEPT !.m_nodes = Append(@, node), !.m_cacheIsValid = FALSE]

\* QBitArray::resize to a larger size, and QBitArray(size).
resized(row, size) == [i \in 1..size |-> IF i <= Len(row) THEN row[i] ELSE FALSE]

\* The rows of m_edges after the resizing at the head of addEdge.
grown(edges, requiredSize) ==
    IF Len(edges) < requiredSize
    THEN [i \in 1..requiredSize |->
             IF i <= Len(edges) THEN resized(edges[i], requiredSize)
             ELSE resized(<<>>, requiredSize)]
    ELSE edges

Max(a, b) == IF a > b THEN a ELSE b

\* DependencyGraph::addEdge. Node indexes are counted from 1 here, so the
\* required size is the larger index.
dgAddEdge(g, dependentNode, requiredNode) ==
    [g EXCEPT !.m_edges =
                 [grown(g.m_edges, Max(IndexOf(dependentNode, g.m_nodes),
                                       IndexOf(requiredNode, g.m_nodes)))
                    EXCEPT ![IndexOf(dependentNode, g.m_nodes)][IndexOf(requiredNode, g.m_nodes)]
                              = TRUE],
              !.m_cacheIsValid = FALSE]

\* DependencyGraph::hasEdge
hasEdge(g, dependentNodeIdx, requiredNodeIdx) ==
    /\ Max(dependentNodeIdx, requiredNodeIdx) <= Len(g.m_edges)
    /\ g.m_edges[dependentNodeIdx][requiredNodeIdx]

\* Helper::nodeNumbers of sort as it would be if it never sorted by value.
nodeNumbers_Unsorted(g) == [i \in 1..Len(g.m_nodes) |-> i]

\* Helper::nodeNumbers of sort: the node indexes in the order of the node
\* values (the values() of a QMap keyed by node) when sortIndependent, in
\* the order of insertion otherwise.
nodeNumbers(g) ==
    IF g.sortIndependent
    THEN [i \in 1..Len(g.m_nodes) |->
             CHOOSE j \in 1..Len(g.m_nodes) :
                 Cardinality({k \in 1..Len(g.m_nodes) :
                                 lessThan(g.T, g.m_nodes[k], g.m_nodes[j])}) = i - 1]
    ELSE [i \in 1..Len(g.m_nodes) |-> i]

\* The inner foreach of sort as it would be if it looked at no edge.
independent_Always(g, remaining, n) == TRUE

\* The inner foreach of sort: node number n has no edge to a remaining one.
independent(g, remaining, n) ==
    \A i \in 1..Len(remaining) : ~hasEdge(g, n, remaining[i])

\* The while (true) of sort: the cache and the node numbers that remain when
\* it is left.
RECURSIVE sortLoop(_, _, _)
sortLoop(g, remaining, cache) ==
    IF \E i \in 1..Len(remaining) : independent(g, remaining, remaining[i])
    THEN LET first == CHOOSE i \in 1..Len(remaining) :
                          /\ independent(g, remaining, remaining[i])
                          /\ \A j \in 1..(i - 1) : ~independent(g, remaining, remaining[j])
         IN sortLoop(g,
                     SubSeq(remaining, 1, first - 1)
                         \o SubSeq(remaining, first + 1, Len(remaining)),
                     Append(cache, g.m_nodes[remaining[first]]))
    ELSE [cache |-> cache, remaining |-> remaining]

\* The builds of the library: Q_ASSERT_X ends the program in a debug build
\* and is no statement in a release build (QT_NO_DEBUG).
Builds == {"debug", "release"}

\* What sort leaves when its loop has ended as r tells: in a debug build
\* with nodes remaining the program is ended inside sort.
sorted(g, r, build) ==
    IF r.remaining # <<>> /\ build = "debug"
    THEN [g |-> [g EXCEPT !.m_cache = r.cache], returned |-> FALSE, ret |-> <<>>]
    ELSE [g |-> [g EXCEPT !.m_cache = r.cache, !.m_cacheIsValid = TRUE],
          returned |-> TRUE, ret |-> r.cache]

\* DependencyGraph::sort: the graph after the call, whether the call
\* returned, and the list returned.
dgSort(g, build) ==
    IF g.m_cacheIsValid THEN [g |-> g, returned |-> TRUE, ret |-> g.m_cache]
    ELSE sorted(g, sortLoop(g, nodeNumbers(g), <<>>), build)

\* ------------------------- Fifo, Lifo, StripedFifo, StripedLifoDependencyGraph

\* The classes that wrap a DependencyGraph<int, true> or a
\* DependencyGraph<SlaveNode, true>.
Wrappers == {"Fifo", "Lifo", "StripedFifo", "StripedLifo"}

\* A wrapper as constructed.
NewWrapper(policy) ==
    [policy |-> policy, m_nodes |-> <<>>, m_stripes |-> <<>>,
     m_slave |-> NewGraph(IF policy \in {"Fifo", "Lifo"} THEN "int" ELSE "SlaveNode", TRUE)]

\* The node of m_slave that stands for the node with index idx (counted
\* from 0, as m_nodes.count() and m_nodes.indexOf() count) and the stripe.
slaveNode(policy, stripe, idx) ==
    CASE policy = "Fifo" -> idx
      [] policy = "Lifo" -> 0 - idx
      [] policy = "StripedFifo" -> <<stripe, idx>>
      [] OTHER -> <<stripe, 0 - idx>>

\* The index, counted from 0, that sort of the wrapper takes from a node of
\* m_slave: i, -i, i.second, -i.second.
nodeIndex(policy, slave) ==
    CASE policy = "Fifo" -> slave
      [] policy = "Lifo" -> 0 - slave
      [] policy = "StripedFifo" -> slave[2]
      [] OTHER -> 0 - slave[2]

\* addNode of the wrappers (stripe is not used by Fifo and Lifo, whose
\* m_stripes stays empty).
wAddNode(w, node, stripe) ==
    [w EXCEPT !.m_slave = dgAddNode(w.m_slave, slaveNode(w.policy, stripe, Len(w.m_nodes))),
              !.m_nodes = Append(@, node),
              !.m_stripes = IF w.policy \in {"Fifo", "Lifo"} THEN @ ELSE Append(@, stripe)]

\* The stripe of the node with index idx (from 0) as addEdge looks it up.
stripeAt(w, idx) == IF w.policy \in {"Fifo", "Lifo"} THEN 0 ELSE w.m_stripes[idx + 1]

\* The node of m_slave for a node of the wrapper.
slaveOf(w, node) ==
    slaveNode(w.policy, stripeAt(w, IndexOf(node, w.m_nodes) - 1), IndexOf(node, w.m_nodes) - 1)

\* addEdge of the wrappers
wAddEdge(w, dependentNode, requiredNode) ==
    [w EXCEPT !.m_slave = dgAddEdge(w.m_slave, slaveOf(w, dependentNode),
                                    slaveOf(w, requiredNode))]

\* The foreach of sort of the wrappers over the list m_slave.sort() returned.
retv(w, list) == [i \in 1..Len(list) |-> w.m_nodes[nodeIndex(w.policy, list[i]) + 1]]

\* sort of the wrappers, given what m_slave.sort() did.
wSorted(w, r) ==
    [g |-> [w EXCEPT !.m_slave = r.g],
     returned |-> r.returned,
     ret |-> IF r.returned THEN retv(w, r.ret) ELSE <<>>]

wSort(w, build) == wSorted(w, dgSort(w.m_slave, build))

\* The graph classes: DependencyGraph<QString, false>, <QString, true> and
\* the wrappers on QString.
GraphKinds == {"Plain", "Sorted"} \cup Wrappers

NewObject(kind) ==
    CASE kind = "Plain" -> NewGraph("QString", FALSE)
      [] kind = "Sorted" -> NewGraph("QString", TRUE)
      [] OTHER -> NewWrapper(kind)

\* addNode, addEdge and sort of the object of the given class.
gAddNode(kind, o, node, stripe) ==
    IF kind \in Wrappers THEN wAddNode(o, node, stripe) ELSE dgAddNode(o, node)

gAddEdge(kind, o, dependentNode, requiredNode) ==
    IF kind \in Wrappers THEN wAddEdge(o, dependentNode, requiredNode)
    ELSE dgAddEdge(o, dependentNode, requiredNode)

gSort(kind, o, build) == IF kind \in Wrappers THEN wSort(o, build) ELSE dgSort(o, build)

\* ------------------------------------------------- a caller of the graphs

\* How many nodes and edges the caller adds one by one, how many stripes it
\* uses, and how many times it calls sort.
MaxNodes == 3
MaxEdges == 3
MaxStripes == 2
MaxSorts == 2

\* The plugin loader while only the classes of Utils are used.
PluginsIdle ==
    /\ h = [s \in Names |-> NewSpec]
    /\ specs = <<>>
    /\ m_pluginToSpec = <<>>
    /\ m_disabledPlugins = {}
    /\ pluginWhichRequestedShutdown = NoName
    /\ resolvedPluginsStack = <<>>
    /\ pc = "lib"
    /\ calls = <<>>
    /\ result = [op |-> "new", ret |-> TRUE, queue |-> <<>>]
    /\ asserted = TRUE
    /\ lastDisabled = NoName
    /\ madePersistent = {}
    /\ faults = 0
    /\ opCount = 0

\* A graph of some class is constructed in some build. dg.added are the
\* edges <<u, v>> that addEdge(u, v) was called with, dg.sorts counts the calls of sort, dg.last is the
\* last call, dg.running is false once a Q_ASSERT has ended the program.
InitGraph ==
    /\ PluginsIdle
    /\ conf = <<>>
    /\ twin = <<>>
    /\ fsw = <<>>
    /\ \E kind \in GraphKinds, build \in Builds :
          dg = [kind |-> kind, build |-> build, obj |-> NewObject(kind),
                added |-> {}, sorts |-> 0,
                last |-> [op |-> "new", returned |-> TRUE, ret |-> <<>>],
                running |-> TRUE]

\* addNode(node) or addNode(node, stripe) with a node not yet in the graph.
GraphAddNode ==
    /\ dg.running /\ Len(dg.obj.m_nodes) < MaxNodes
    /\ \E node \in SeqSet(SubSeq(Letters, 1, MaxNodes)) \ SeqSet(dg.obj.m_nodes) :
       \E stripe \in 1..MaxStripes :
          /\ dg.kind \notin {"StripedFifo", "StripedLifo"} => stripe = 1
          /\ dg' = [dg EXCEPT !.obj = gAddNode(dg.kind, dg.obj, node, stripe),
                              !.last = [op |-> "addNode", returned |-> TRUE, ret |-> <<>>]]
    /\ UNCHANGED <<pluginVars, conf, twin, fsw>>

\* addEdge(u, v) with two nodes of the graph.
GraphAddEdge ==
    /\ dg.running /\ Cardinality(dg.added) < MaxEdges
    /\ \E u, v \in SeqSet(dg.obj.m_nodes) :
          dg' = [dg EXCEPT !.obj = gAddEdge(dg.kind, dg.obj, u, v),
                           !.added = @ \cup {<<u, v>>},
                           !.last = [op |-> "addEdge", returned |-> TRUE, ret |-> <<>>]]
    /\ UNCHANGED <<pluginVars, conf, twin, fsw>>

\* The graph after the calls addNode(list[i]), ... and addEdge(edges[i][1],
\* edges[i][2]), ...
RECURSIVE addNodes(_, _, _, _)
addNodes(kind, o, list, i) ==
    IF i > Len(list) THEN o
    ELSE addNodes(kind, gAddNode(kind, o, list[i], 1), list, i + 1)

RECURSIVE addEdges(_, _, _, _)
addEdges(kind, o, edges, i) ==
    IF i > Len(edges) THEN o
    ELSE addEdges(kind, gAddEdge(kind, o, edges[i][1], edges[i][2]), edges, i + 1)

\* The two graphs of the documentation of FifoDependencyGraph: the same
\* eleven edges, the nodes added in two orders.
ExampleEdges ==
    <<(<<"C", "A">>), <<"C", "B">>, <<"E", "B">>, <<"E", "D">>, <<"F", "C">>, <<"F", "E">>,
      <<"G", "C">>, <<"G", "F">>, <<"H", "F">>, <<"I", "F">>, <<"I", "D">>>>
ExampleNodes ==
    {<<"A", "B", "C", "D", "E", "F", "G", "H", "I">>,
     <<"A", "B", "D", "C", "E", "F", "H", "I", "G">>}

\* The caller builds one of the graphs of the documentation.
GraphExample ==
    /\ dg.running /\ dg.obj.m_nodes = <<>>
    /\ \E list \in ExampleNodes :
          dg' = [dg EXCEPT !.obj = addEdges(dg.kind, addNodes(dg.kind, dg.obj, list, 1),
                                            ExampleEdges, 1),
                           !.added = SeqSet(ExampleEdges),
                           !.last = [op |-> "addEdge", returned |-> TRUE, ret |-> <<>>]]
    /\ UNCHANGED <<pluginVars, conf, twin, fsw>>

\* The caller with the graph as the call r of sort left it.
afterSort(d, r) ==
    [d EXCEPT !.obj = r.g,
              !.sorts = @ + 1,
              !.last = [op |-> "sort", returned |-> r.returned, ret |-> r.ret],
              !.running = r.returned]

\* sort()
GraphSort ==
    /\ dg.running /\ dg.sorts < MaxSorts
    /\ dg' = afterSort(dg, gSort(dg.kind, dg.obj, dg.build))
    /\ UNCHANGED <<pluginVars, conf, twin, fsw>>

NextGraph == GraphAddNode \/ GraphAddEdge \/ GraphExample \/ GraphSort

SpecGraph == InitGraph /\ [][NextGraph]_vars

\* ------------------------------------------------ what sort has to return

\* Node u requires node v, directly or through other nodes, by the edges added.
RECURSIVE requiresWithin(_, _, _)
requiresWithin(edges, u, n) ==
    IF n = 0 THEN {}
    ELSE LET direct == {e[2] : e \in {d \in edges : d[1] = u}}
         IN direct \cup UNION {requiresWithin(edges, d, n - 1) : d \in direct}

\* The edges added contain a cycle.
Cyclic(edges, nodes) ==
    \E u \in SeqSet(nodes) : u \in requiresWithin(edges, u, Len(nodes))

\* The last call was a sort of an acyclic graph that returned.
SortedAcyclic ==
    /\ dg.last.op = "sort" /\ dg.last.returned
    /\ ~Cyclic(dg.added, dg.obj.m_nodes)

\* C22: sort of an acyclic graph returns every added node exactly once, and
\* for every edge added by addEdge(u, v) it returns v before u; for
\* DependencyGraph with either flag and for the four wrappers.
C22_TopologicalOrder ==
    (pc = "lib" /\ dg # <<>> /\ SortedAcyclic) =>
        /\ NoDup(dg.last.ret)
        /\ SeqSet(dg.last.ret) = SeqSet(dg.obj.m_nodes)
        /\ Len(dg.last.ret) = Len(dg.obj.m_nodes)
        /\ \A e \in dg.added : IndexOf(e[2], dg.last.ret) < IndexOf(e[1], dg.last.ret)

\* sort has returned three nodes of which one requires another through the third.
C22_Witness ==
    /\ pc = "lib" /\ dg # <<>> /\ SortedAcyclic
    /\ Len(dg.last.ret) = MaxNodes
    /\ \E u \in SeqSet(dg.obj.m_nodes) : Cardinality(requiresWithin(dg.added, u, MaxNodes)) = 2
    /\ dg.last.ret # dg.obj.m_nodes

\* The key by which the policy of the class orders two nodes that do not
\* require each other: the place in the order of insertion for Fifo, the same
\* reversed for Lifo, the stripe and then that place for the striped classes,
\* the node value for DependencyGraph<QString, true>.
policyKey(d, node) ==
    CASE d.kind = "Fifo" -> <<0, IndexOf(node, d.obj.m_nodes)>>
      [] d.kind = "Lifo" -> <<0, 0 - IndexOf(node, d.obj.m_nodes)>>
      [] d.kind = "StripedFifo" ->
            <<d.obj.m_stripes[IndexOf(node, d.obj.m_nodes)], IndexOf(node, d.obj.m_nodes)>>
      [] d.kind = "StripedLifo" ->
            <<d.obj.m_stripes[IndexOf(node, d.obj.m_nodes)], 0 - IndexOf(node, d.obj.m_nodes)>>
      [] OTHER -> <<0, IndexOf(node, Letters)>>

\* The nodes that can come next after those of done: not in done, with every
\* node they require in done.
Ready(d, done) ==
    {n \in SeqSet(d.obj.m_nodes) \ done : \A e \in d.added : e[1] = n => e[2] \in done}

\* Every node of the list is the one of least key among those ready after
\* the nodes before it.
LeastFirst(d, list) ==
    \A k \in 1..Len(list) :
        /\ list[k] \in Ready(d, {list[i] : i \in 1..(k - 1)})
        /\ \A n \in Ready(d, {list[i] : i \in 1..(k - 1)}) :
              ~lessThan("SlaveNode", policyKey(d, n), policyKey(d, list[k]))

\* What the documentation gives for the graphs of the example.
Documented(kind, nodes) ==
    CASE kind = "Fifo" /\ nodes = <<"A", "B", "C", "D", "E", "F", "G", "H", "I">> ->
            <<"A", "B", "C", "D", "E", "F", "G", "H", "I">>
      [] kind = "Fifo" -> <<"A", "B", "D", "C", "E", "F", "H", "I", "G">>
      [] kind = "Lifo" /\ nodes = <<"A", "B", "C", "D", "E", "F", "G", "H", "I">> ->
            <<"D", "B", "E", "A", "C", "F", "I", "H", "G">>
      [] OTHER -> <<"D", "B", "E", "A", "C", "F", "G", "I", "H">>

\* C23: in the list sort returns for an acyclic graph every node is the least
\* under the key of the policy among the remaining nodes that require no
\* remaining node. Without edges Fifo returns the order of insertion and Lifo
\* its reverse, and the graphs of the documentation give the documented lists.
C23_LeastKeyFirst ==
    (pc = "lib" /\ dg # <<>> /\ SortedAcyclic /\ dg.kind # "Plain") =>
        /\ LeastFirst(dg, dg.last.ret)
        /\ (dg.added = {} /\ dg.kind = "Fifo") => dg.last.ret = dg.obj.m_nodes
        /\ (dg.added = {} /\ dg.kind = "Lifo") => dg.last.ret = Reverse(dg.obj.m_nodes)
        /\ (dg.obj.m_nodes \in ExampleNodes /\ dg.kind \in {"Fifo", "Lifo"})
              => dg.last.ret = Documented(dg.kind, dg.obj.m_nodes)

\* LifoDependencyGraph has sorted the second graph of the documentation.
C23_Witness ==
    /\ pc = "lib" /\ dg # <<>> /\ SortedAcyclic
    /\ dg.kind = "Lifo"
    /\ dg.obj.m_nodes = <<"A", "B", "D", "C", "E", "F", "H", "I", "G">>
    /\ dg.last.ret = <<"D", "B", "E", "A", "C", "F", "G", "I", "H">>

\* The DependencyGraph that does the sorting for the object of the caller.
sorter(d) == IF d.kind \in Wrappers THEN d.obj.m_slave ELSE d.obj

\* C24: sort of a graph whose edges contain a cycle, a self-edge included,
\* fails: it returns no list, partial or complete, and does not mark its
\* cache valid, so that a later sort fails again.
C24_CycleFails ==
    (pc = "lib" /\ dg # <<>> /\ dg.last.op = "sort" /\ Cyclic(dg.added, dg.obj.m_nodes)) =>
        /\ ~dg.last.returned
        /\ ~sorter(dg).m_cacheIsValid

-----------------------------------------------------------------------------
\* Utils::Configuration: expressions over resources and versions, the
\* registry of version compare functions and satisfies().

digitValue(ch) == (CHOOSE i \in 1..Len(Digits) : Digits[i] = ch) - 1

\* The largest value of int.
INT_MAX == 2147483647

\* QString::split('.'): the parts between the separators, empty parts kept.
split(str) == parts(str, ".")

\* QString::toInt() of a string of digits: its value, and 0 when the
\* conversion fails, which here is when the value does not fit int.
RECURSIVE toIntFrom(_, _, _)
toIntFrom(str, i, acc) ==
    IF i > Len(str) THEN acc
    ELSE IF acc > (INT_MAX - digitValue(str[i])) \div 10 THEN 0
    ELSE toIntFrom(str, i + 1, acc * 10 + digitValue(str[i]))

toInt(str) == IF str = <<>> THEN 0 ELSE toIntFrom(str, 1, 0)

Min(a, b) == IF a < b THEN a ELSE b

\* The loop of defaultVersionCompareFunction from component i on.  Both
\* operands of the subtraction are results of toInt on digits, so they lie in
\* 0..INT_MAX and the difference is an int.
RECURSIVE compareFrom(_, _, _)
compareFrom(sv1, sv2, i) ==
    IF i > Min(Len(sv1), Len(sv2)) THEN Len(sv1) - Len(sv2)
    ELSE IF toInt(sv1[i]) - toInt(sv2[i]) # 0 THEN toInt(sv1[i]) - toInt(sv2[i])
    ELSE compareFrom(sv1, sv2, i + 1)

defaultVersionCompareFunction_CountOnly(v1, v2) == Len(split(v1)) - Len(split(v2))

defaultVersionCompareFunction(v1, v2) ==
    compareFrom(split(v1), split(v2), 1)

\* A compare function a caller registers for its resource: newer versions
\* have the smaller numbers.
countdownCompareFunction(v1, v2) == defaultVersionCompareFunction(v2, v1)

Resources == {"Qt", "Gui"}
Relations == {"Lt", "Le", "Eq", "Ne", "Ge", "Gt"}

\* Configuration(resource), Configuration(resource, type, version),
\* Configuration(type, right) and Configuration(left, type, right).
Exists(r) == [type |-> "Exists", resource |-> r]
Rel(r, type, v) == [type |-> type, resource |-> r, version |-> v]
Not(e) == [type |-> "Not", right |-> e]
Binary(e1, type, e2) == [type |-> type, left |-> e1, right |-> e2]

\* versionCompareFunctions.value(resource.id(), defaultVersionCompareFunction)
\* applied to v1 and v2; registry is the set of resources with a function
\* registered.
compare(registry, r, v1, v2) ==
    IF r \in registry THEN countdownCompareFunction(v1, v2)
    ELSE defaultVersionCompareFunction(v1, v2)

relationHolds(relation, cmp) ==
    CASE relation = "Lt" -> cmp < 0
      [] relation = "Le" -> cmp <= 0
      [] relation = "Eq" -> cmp = 0
      [] relation = "Ne" -> cmp # 0
      [] relation = "Ge" -> cmp >= 0
      [] relation = "Gt" -> cmp > 0
      [] OTHER -> FALSE

satisfiesVersion_Swapped(registry, d, relation, version) ==
    relationHolds(relation, compare(registry, d.resource, version, d.version))

\* Configuration::Data::satisfiesVersion of the leaf d.
satisfiesVersion(registry, d, relation, version) ==
    relationHolds(relation, compare(registry, d.resource, d.version, version))

\* Configuration::satisfies.  A leaf of this configuration other than Exists
\* and Eq fails an assertion; without assertions the switch is left and the
\* function returns false.
RECURSIVE satisfies(_, _, _)
satisfies(registry, d, requiredConfiguration) ==
    CASE requiredConfiguration.type = "Not" ->
            ~satisfies(registry, d, requiredConfiguration.right)
      [] requiredConfiguration.type \in {"Comma", "And"} ->
            satisfies(registry, d, requiredConfiguration.left)
                /\ satisfies(registry, d, requiredConfiguration.right)
      [] requiredConfiguration.type = "Or" ->
            satisfies(registry, d, requiredConfiguration.left)
                \/ satisfies(registry, d, requiredConfiguration.right)
      [] requiredConfiguration.type = "Exists" ->
            CASE d.type = "Comma" ->
                    satisfies(registry, d.left, requiredConfiguration)
                        \/ satisfies(registry, d.right, requiredConfiguration)
              [] d.type \in {"Exists", "Eq"} ->
                    d.resource = requiredConfiguration.resource
              [] OTHER -> FALSE
      [] requiredConfiguration.type \in Relations ->
            CASE d.type = "Comma" ->
                    satisfies(registry, d.left, requiredConfiguration)
                        \/ satisfies(registry, d.right, requiredConfiguration)
              [] d.type = "Exists" -> FALSE
              [] d.type = "Eq" ->
                    d.resource = requiredConfiguration.resource
                        /\ satisfiesVersion(registry, d, requiredConfiguration.type,
                                            requiredConfiguration.version)
              [] OTHER -> FALSE
      [] OTHER -> FALSE

\* The version strings the callers use.
V_1_2_3 == <<"1", ".", "2", ".", "3">>
V_1_2_10 == <<"1", ".", "2", ".", "1", "0">>
V_1_2 == <<"1", ".", "2">>
V_1_2_0 == <<"1", ".", "2", ".", "0">>
V_4_7 == <<"4", ".", "7">>
V_4_6_5 == <<"4", ".", "6", ".", "5">>
V_4_8 == <<"4", ".", "8">>
V_0 == <<"0">>
V_01_2 == <<"0", "1", ".", "2">>
V_2147483647 == <<"2", "1", "4", "7", "4", "8", "3", "6", "4", "7">>
V_2147483646_1 == <<"2", "1", "4", "7", "4", "8", "3", "6", "4", "6", ".", "1">>
V_2147483648 == <<"2", "1", "4", "7", "4", "8", "3", "6", "4", "8">>

Versions ==
    {V_1_2_3, V_1_2_10, V_1_2, V_1_2_0,
     V_4_7, V_4_6_5, V_4_8, V_0,
     V_01_2, V_2147483647, V_2147483646_1, V_2147483648}

\* The versions the configurations of the callers mention.
SatVersions == {V_4_7, V_4_8}

\* What a caller provides: resources, some with their exact version, joined
\* by the comma operator.
ProvidedLeaves ==
    {Exists(r) : r \in Resources}
        \cup {Rel(r, "Eq", v) : r \in Resources, v \in SatVersions}

\* The provided and the required configuration of the documented example,
\* and the required one with 4.8 as the least version of Qt.
ExampleProvided ==
    Binary(Binary(Exists("Qt"), "Comma", Rel("Qt", "Eq", V_4_7)), "Comma", Exists("Gui"))
ExampleRequired ==
    Binary(Binary(Rel("Qt", "Ge", V_4_6_5), "And", Rel("Qt", "Lt", V_4_8)), "And", Exists("Gui"))
ExampleRequired48 ==
    Binary(Binary(Rel("Qt", "Ge", V_4_8), "And", Rel("Qt", "Lt", V_4_8)), "And", Exists("Gui"))

Provided ==
    ProvidedLeaves
        \cup {Binary(e1, "Comma", e2) : e1 \in ProvidedLeaves, e2 \in ProvidedLeaves}
        \cup {ExampleProvided}

\* What a caller requires: every literal, its negation, and the literals
\* joined by one operator, also negated.
RequiredLeaves ==
    {Exists(r) : r \in Resources}
        \cup {Rel(r, t, v) : r \in Resources, t \in Relations, v \in SatVersions}
JoinedLeaves ==
    {Exists(r) : r \in Resources}
        \cup {Rel(r, t, v) : r \in Resources, t \in {"Lt", "Ge"}, v \in SatVersions}
Joined ==
    {Binary(e1, t, e2) : e1 \in JoinedLeaves, e2 \in JoinedLeaves, t \in {"Comma", "And", "Or"}}
Required ==
    RequiredLeaves
        \cup {Not(e) : e \in RequiredLeaves}
        \cup Joined
        \cup {Not(e) : e \in {j \in Joined : j.left.type = "Exists" /\ j.right.type = "Exists"}}
        \cup {ExampleRequired, ExampleRequired48}

\* A process that has registered no compare function and called nothing.
InitConf ==
    /\ PluginsIdle
    /\ dg = <<>>
    /\ twin = <<>>
    /\ fsw = <<>>
    /\ conf = [registry |-> {}, done |-> FALSE, last |-> [op |-> "none"]]

\* Configuration::registerVersionCompareFunction(resource, function); the
\* resource has no function registered yet.
ConfRegister ==
    /\ pc = "lib" /\ conf # <<>> /\ ~conf.done
    /\ \E r \in Resources \ conf.registry :
          conf' = [conf EXCEPT !.registry = @ \cup {r},
                               !.last = [op |-> "register", resource |-> r]]
    /\ UNCHANGED <<pluginVars, dg, twin, fsw>>

\* Configuration::defaultVersionCompareFunction called on the pairs of three
\* versions.
ConfCompare ==
    /\ pc = "lib" /\ conf # <<>> /\ ~conf.done
    /\ \E v1 \in Versions, v2 \in Versions, v3 \in Versions :
          conf' = [conf EXCEPT
                     !.done = TRUE,
                     !.last = [op |-> "compare", v |-> <<v1, v2, v3>>,
                               ab |-> defaultVersionCompareFunction(v1, v2),
                               ba |-> defaultVersionCompareFunction(v2, v1),
                               bc |-> defaultVersionCompareFunction(v2, v3),
                               ac |-> defaultVersionCompareFunction(v1, v3)]]
    /\ UNCHANGED <<pluginVars, dg, twin, fsw>>

\* providedConfiguration.satisfies(requiredConfiguration).
ConfSatisfies ==
    /\ pc = "lib" /\ conf # <<>> /\ ~conf.done
    /\ \E provided \in Provided, required \in Required :
          conf' = [conf EXCEPT
                     !.done = TRUE,
                     !.last = [op |-> "satisfies", provided |-> provided,
                               required |-> required,
                               ret |-> satisfies(conf.registry, provided, required)]]
    /\ UNCHANGED <<pluginVars, dg, twin, fsw>>

NextConf == ConfRegister \/ ConfCompare \/ ConfSatisfies

SpecConf == InitConf /\ [][NextConf]_vars

\* The literals of a provided configuration.
RECURSIVE leaves(_)
leaves(e) ==
    IF e.type = "Comma" THEN leaves(e.left) \cup leaves(e.right) ELSE {e}

\* The value of a required configuration as its documentation defines it,
\* over the literals lv that are provided.
RECURSIVE evaluation(_, _, _)
evaluation(registry, lv, e) ==
    CASE e.type = "Exists" -> \E l \in lv : l.resource = e.resource
      [] e.type \in Relations ->
            \E l \in lv :
               /\ l.type = "Eq" /\ l.resource = e.resource
               /\ LET cmp == compare(registry, e.resource, l.version, e.version)
                  IN  \/ e.type = "Lt" /\ cmp < 0
                      \/ e.type = "Le" /\ (cmp < 0 \/ cmp = 0)
                      \/ e.type = "Eq" /\ cmp = 0
                      \/ e.type = "Ne" /\ (cmp < 0 \/ cmp > 0)
                      \/ e.type = "Ge" /\ (cmp > 0 \/ cmp = 0)
                      \/ e.type = "Gt" /\ cmp > 0
      [] e.type = "Not" -> ~evaluation(registry, lv, e.right)
      [] e.type \in {"And", "Comma"} ->
            evaluation(registry, lv, e.left) /\ evaluation(registry, lv, e.right)
      [] e.type = "Or" ->
            evaluation(registry, lv, e.left) \/ evaluation(registry, lv, e.right)

Satisfied == pc = "lib" /\ conf # <<>> /\ conf.last.op = "satisfies"

\* C25: satisfies of a provided configuration made of Exists and Eq literals
\* joined by commas returns the value of the required configuration: Exists
\* holds iff a provided literal names the resource, a relation iff a provided
\* Eq literal of the resource has a version that compares so, Not negates, And
\* and Comma are conjunction, Or is disjunction.  With the default compare
\* function, (Qt, Qt == 4.7, Gui) satisfies Qt >= 4.6.5 && Qt < 4.8 && Gui and
\* does not satisfy Qt >= 4.8 && Qt < 4.8 && Gui.
C25_SatisfiesIsEvaluation ==
    Satisfied =>
        /\ conf.last.ret
              = evaluation(conf.registry, leaves(conf.last.provided), conf.last.required)
        /\ (conf.last.provided = ExampleProvided /\ "Qt" \notin conf.registry) =>
              /\ conf.last.required = ExampleRequired => conf.last.ret
              /\ conf.last.required = ExampleRequired48 => ~conf.last.ret

C25_Witness ==
    /\ Satisfied
    /\ conf.registry = {}
    /\ conf.last.provided = ExampleProvided
    /\ conf.last.required = ExampleRequired
    /\ conf.last.ret

\* The digits of INT_MAX.
IntMaxDigits == <<"2", "1", "4", "7", "4", "8", "3", "6", "4", "7">>

RECURSIVE withoutZeros(_)
withoutZeros(str) ==
    IF Len(str) > 1 /\ Head(str) = "0" THEN withoutZeros(Tail(str)) ELSE str

\* The number a string of digits denotes fits int.
FitsInt(str) ==
    LET ds == withoutZeros(str)
    IN  \/ Len(ds) < Len(IntMaxDigits)
        \/ /\ Len(ds) = Len(IntMaxDigits)
           /\ \A i \in 1..Len(ds) :
                 (\A j \in 1..(i - 1) : ds[j] = IntMaxDigits[j]) =>
                     digitValue(ds[i]) <= digitValue(IntMaxDigits[i])

\* The number a string of digits denotes.
RECURSIVE number(_)
number(str) ==
    IF str = <<>> THEN 0
    ELSE 10 * number(SubSeq(str, 1, Len(str) - 1)) + digitValue(str[Len(str)])

Fits(v) == \A i \in 1..Len(split(v)) : FitsInt(split(v)[i])

numbers(v) == [i \in 1..Len(split(v)) |-> number(split(v)[i])]

\* The first sequence of numbers is before the second one: it is less at the
\* first place they differ, or it is a proper prefix.
Before(a, b) ==
    \/ \E i \in 1..Min(Len(a), Len(b)) :
          a[i] < b[i] /\ \A j \in 1..(i - 1) : a[j] = b[j]
    \/ Len(a) < Len(b) /\ \A j \in 1..Len(a) : a[j] = b[j]

SignAgrees(cmp, a, b) ==
    /\ cmp < 0 <=> Before(a, b)
    /\ cmp = 0 <=> a = b
    /\ cmp > 0 <=> Before(b, a)

Compared == pc = "lib" /\ conf # <<>> /\ conf.last.op = "compare"

\* C26: for versions whose components fit a signed 32-bit integer, the result
\* of the default compare function is negative, zero or positive as the
\* sequence of numbers of the first version is before, equal to or after that
\* of the second, a proper prefix being before its extensions; 1.2.3 is before
\* 1.2.10 and 1.2 before 1.2.0; swapping the arguments swaps the sign, and the
\* order is transitive.
C26_ComparesNumbers ==
    (Compared /\ \A i \in 1..3 : Fits(conf.last.v[i])) =>
        /\ SignAgrees(conf.last.ab, numbers(conf.last.v[1]), numbers(conf.last.v[2]))
        /\ (conf.last.v[1] = V_1_2_3 /\ conf.last.v[2] = V_1_2_10) => conf.last.ab < 0
        /\ (conf.last.v[1] = V_1_2 /\ conf.last.v[2] = V_1_2_0) => conf.last.ab < 0
        /\ conf.last.ab < 0 <=> conf.last.ba > 0
        /\ conf.last.ab = 0 <=> conf.last.ba = 0
        /\ (conf.last.ab < 0 /\ conf.last.bc < 0) => conf.last.ac < 0
        /\ (conf.last.ab = 0 /\ conf.last.bc = 0) => conf.last.ac = 0

C26_Witness ==
    /\ Compared
    /\ conf.last.v = <<V_0, V_2147483647, V_2147483646_1>>
    /\ conf.last.ab = -INT_MAX
    /\ conf.last.bc = 1
    /\ conf.last.ac < 0

-----------------------------------------------------------------------------
\* The load queue and the order in which the spec files are found.

\* The spec file spec t was read from, as its fields and its first error
\* tell after loadPlugins.
FileSeen(t) ==
    SpecFile(t,
             IF h[t].state = Invalid THEN "malformed"
             ELSE IF h[t].errorString # <<>>
                     /\ h[t].errorString[1] = <<"Expected attribut 'name' at element dependency">>
             THEN "badDep"
             ELSE "ok",
             h[t].dependencies)

\* A manager that holds nothing yet, in a new process.
NewManager ==
    [h |-> [s \in Names |-> NewSpec], map |-> <<>>, stack |-> <<>>, asserted |-> TRUE,
     calls |-> <<>>, queue |-> <<>>, unloading |-> <<>>, initialized |-> TRUE,
     ret |-> TRUE, done |-> FALSE, shutdown |-> NoName]

\* The load queue of a manager that finds the same spec files in the order
\* found, with the same settings.
QueueFor(found) ==
    withLoadQueue(mgrResolveDependencies(
        readPluginSpecs(NewManager, found, [t \in Created |-> FileSeen(t)], 1),
        m_disabledPlugins)).queue

JustLoaded == pc = "loaded" /\ result.op = "loadPlugins"

\* C27: the load queue does not depend on the order in which the specs were
\* found, inserted and resolved: a manager that finds the same spec files
\* (distinct names, the same dependencies) in any other order, with the same
\* plugins disabled, builds the same load queue.
C27_QueueReproducible ==
    JustLoaded => \A found \in Orderings(Created) : QueueFor(found) = result.queue

C27_Witness ==
    /\ JustLoaded
    /\ Len(result.queue) = 3
    /\ specs # result.queue
    /\ specs # NameOrder
    /\ \E t \in Created : h[t].dependencySpecs # <<>>

-----------------------------------------------------------------------------
\* resolveDependencies called again.

\* The specs spec t depends on and the specs that list t as one they provide
\* for, in heap hh.
ForwardEdges(hh, t) == SeqSet(hh[t].dependencySpecs)
ReverseEdges(hh, t) == {o \in Names : InSeq(t, hh[o].providesSpecs)}

\* The last two operations were resolveDependencies on the same spec.
ResolvedAgain ==
    /\ pc = "api"
    /\ result.op = "resolveDependencies"
    /\ result'.op = "resolveDependencies"
    /\ result'.spec = result.spec

\* C28: resolveDependencies called a second time in a row on a spec with the
\* same list of specs leaves the set of its dependencySpecs, the set of specs
\* that hold it in providesSpecs, and its state as the first call left them.
C28_ResolveTwiceSameEdges ==
    [][ResolvedAgain =>
          /\ ForwardEdges(h', result.spec) = ForwardEdges(h, result.spec)
          /\ ReverseEdges(h', result.spec) = ReverseEdges(h, result.spec)
          /\ h'[result.spec].state = h[result.spec].state]_vars

\* Two calls in a row that found the dependency both times: the spec is
\* twice in the providesSpecs of its dependency.
C28_Witness ==
    /\ pc = "api"
    /\ opCount = 4
    /\ result.op = "resolveDependencies"
    /\ result.from = Resolved
    /\ h[result.spec].state = Resolved
    /\ \E o \in Names :
          Len(SelectSeq(h[o].providesSpecs, LAMBDA x : x = result.spec)) = 2

-----------------------------------------------------------------------------
\* Two processes whose spec files differ in the version attributes only.  The
\* second one, twin, is given the files without version attributes; what
\* holds between every run and this one holds between any two runs.

\* The version attributes the files bear: two versions and a string that is
\* none.
V_2_0_1 == <<"2", ".", "0", "_", "1">>
V_1_2_3_4 == <<"1", ".", "2", ".", "3", ".", "4">>
FileVersions == {V_1_2, V_1_2_3_4}
DependencyVersions == {V_1_2, V_2_0_1, V_1_2_3_4}

\* The dependency lists of the files: no dependency or one.
VersionedDeps(t) == {q \in ListsUpTo(Names, 1) : ~InSeq(t, q)}

\* The manager of the second process as the operators take it.
TwinMgr ==
    [twin EXCEPT !.queue = <<>>, !.unloading = <<>>, !.initialized = TRUE,
                 !.ret = TRUE, !.done = FALSE]

\* PluginManager::loadPlugins(paths) in both processes: the same files are
\* found in the same order, those of the first process with versions.
TwoLoadPlugins ==
    /\ pc = "start"
    /\ \E created \in (SUBSET Names) \ {{}} :
       \E found \in Orderings(created) :
       \E deps \in [created -> ListsUpTo(Names, 1)] :
       \E sv \in [created -> FileVersions] :
       \E dv \in DependencyVersions :
          /\ \A t \in created : deps[t] \in VersionedDeps(t)
          /\ LET plain == FilesOf(created, [t \in created |-> "ok"], deps)
                 files == [t \in created |->
                              withVersions(plain[t], sv[t], [i \in 1..Len(deps[t]) |-> dv])]
                 lib == [t \in created |-> "ok"]
             IN  /\ MgrDone(mgrLoadPlugins(Mgr, found, files, m_disabledPlugins, lib),
                            "loadPlugins")
                 /\ twin' = mgrLoadPlugins(Mgr, found, plain, m_disabledPlugins, lib)
          /\ specs' = found
    /\ pc' = "loaded"
    /\ UNCHANGED <<m_disabledPlugins, dg, conf, fsw, lastDisabled, madePersistent, faults, opCount>>

\* setPersistent() on the spec of the core plugin among the specs of map.
persistCore(hh, map) ==
    [t \in Names |-> IF InSeq(t, mapValues(map)) /\ hh[t].name = CoreName
                     THEN setPersistent(hh, t, TRUE)[t] ELSE hh[t]]

\* main() in both processes: setPersistent() on the spec of the core plugin.
TwoSetPersistent ==
    /\ pc = "loaded" /\ twin # <<>>
    /\ h' = persistCore(h, m_pluginToSpec)
    /\ twin' = [twin EXCEPT !.h = persistCore(twin.h, twin.map)]
    /\ pc' = "persisted"
    /\ UNCHANGED <<specs, m_pluginToSpec, m_disabledPlugins, dg, conf, fsw,
                   pluginWhichRequestedShutdown, resolvedPluginsStack, calls, result, asserted,
                   lastDisabled, madePersistent, faults, opCount>>

\* PluginManager::initializePlugins(monitor) in both processes; the plugins
\* answer the same in both.
TwoInitializePlugins ==
    /\ pc = "persisted" /\ twin # <<>>
    /\ \E bad \in {S \in SUBSET Names : Cardinality(S) + faults <= MaxFaults} :
       \E how \in [bad -> InitOutcomes \ {"ok"}] :
          LET init == [t \in Names |-> IF t \in bad THEN how[t] ELSE "ok"]
          IN  /\ InitializePluginsReturns(mgrInitializePlugins(Mgr, init), bad)
              /\ twin' = mgrInitializePlugins(TwinMgr, init)
              /\ faults' = faults + Cardinality(bad)
    /\ pc' = "initialized"
    /\ UNCHANGED <<specs, m_disabledPlugins, dg, conf, fsw, lastDisabled, madePersistent, opCount>>

\* PluginManager::unloadPlugins() in both processes, the instances at the
\* same addresses.
TwoUnloadPlugins ==
    /\ pc = "initialized" /\ twin # <<>>
    /\ \E iter \in IterationOrders :
          /\ MgrDone(mgrUnloadPlugins(Mgr, iter), "unloadPlugins")
          /\ twin' = mgrUnloadPlugins(TwinMgr, iter)
    /\ pc' = "unloaded"
    /\ UNCHANGED <<specs, m_disabledPlugins, dg, conf, fsw, lastDisabled, madePersistent, faults,
                   opCount>>

NextVersions ==
    TwoLoadPlugins \/ TwoSetPersistent \/ TwoInitializePlugins \/ TwoUnloadPlugins

SpecVersions == Init /\ [][NextVersions]_vars

\* The heap without what was read from the version attributes.
Unversioned(hh) ==
    [t \in Names |-> [hh[t] EXCEPT !.version = <<>>,
                                   !.dependencyVersions = [i \in 1..Len(@) |-> <<>>]]]

\* The methods called on the specs, in order.
CallsMade(list) == [i \in 1..Len(list) |-> <<list[i].op, list[i].spec>>]

\* C29: the versions of the specs and of the declared dependencies do not
\* influence the lifecycle: a run over files that differ in the version
\* attributes only has the same edges, states and flags in every spec, holds
\* the same specs, builds the same load and unload queues, makes the same
\* calls and returns the same.
C29_VersionsIgnored ==
    twin # <<>> =>
        /\ Unversioned(h) = twin.h
        /\ m_pluginToSpec = twin.map
        /\ result.queue = twin.queue
        /\ result.ret = twin.ret
        /\ CallsMade(calls) = CallsMade(twin.calls)
        /\ pluginWhichRequestedShutdown = twin.shutdown

\* A whole run with a version read, a version rejected and a dependency
\* whose version was read.
C29_Witness ==
    /\ twin # <<>>
    /\ pc = "unloaded"
    /\ Len(result.queue) >= 2
    /\ \E t \in Names : h[t].version = V_1_2
    /\ \E t \in Names : h[t].state >= Resolved /\ h[t].version = <<>>
    /\ \E t \in Names : h[t].dependencySpecs # <<>> /\ h[t].dependencyVersions = <<V_2_0_1>>

-----------------------------------------------------------------------------
\* Errors and the state.

\* The step was an operation other than read that recorded an error on spec t.
RecordsError(t) ==
    /\ pc = "api"
    /\ result'.op # "read"
    /\ Len(h'[t].errorString) > Len(h[t].errorString)

\* The step was resolveDependencies on spec t, called when t was Resolved, and
\* it left t in Read.
WentBack(t) ==
    /\ result'.op = "resolveDependencies"
    /\ result'.spec = t
    /\ h[t].state = Resolved
    /\ h'[t].state = Read

\* C30 as stated: an operation other than read that records an error on a
\* spec leaves the state of the spec as it was.
C30_AsStated ==
    [][\A t \in Names : RecordsError(t) => h'[t].state = h[t].state]_vars

\* C30: an operation other than read that records an error on a spec leaves
\* the state of the spec as it was, except resolveDependencies called on a
\* Resolved spec, which leaves it in Read.
C30_ErrorsKeepState ==
    [][\A t \in Names : RecordsError(t) => (h'[t].state = h[t].state \/ WentBack(t))]_vars

\* resolveDependencies failed on a spec that was Resolved.
C30_Witness ==
    /\ pc = "api"
    /\ result.op = "resolveDependencies"
    /\ result.from = Resolved
    /\ ~result.ret
    /\ h[result.spec].state = Read
    /\ h[result.spec].hasError

\* ---------------------------------------------------------------------------
\* FileSystemWatcher.  fsw is the one Watcher instance together with the
\* FileSystemWatcher objects using it (the path owners), the files on disk and
\* the application's active window.
\*   m_map[p]        the owners registered for path p ({} when p is no key)
\*   m_active        Watcher::m_active
\*   m_pathsChanged  Watcher::m_pathsChanged
\*   watched         files() and directories() of the QFileSystemWatcher
\*   exists          the paths QFileInfo(path).exists() holds for
\*   alive           the FileSystemWatcher objects that exist
\*   connected       the owners whose destroyed() signal reaches the Watcher
\*   window          qApp->activeWindow() != 0
\*   emitted         the emit statements the last handler executed, in order
\*   fault           an emit on a destroyed owner ended the process
\*   last            the last operation
\* ---------------------------------------------------------------------------
WatchedPaths == {"a", "b"}
Owners == {"o1", "o2"}
PathArgs == SUBSET (WatchedPaths \cup {""})

\* What a slot connected to an owner's pathChanged signal does with the
\* FileSystemWatcher objects when it runs: nothing, removePath(path) on an
\* owner, or delete of another owner.
Reactions == {<<"none">>} \cup ({"removePaths", "delete"} \X Owners)
\* One slot at most does something to the watchers.
Slots == {f \in [Owners -> Reactions] : Cardinality({o \in Owners : f[o] # <<"none">>}) <= 1}
\* QSet gives no iteration order.
Orders(S) == {q \in [1..Cardinality(S) -> S] : \A x \in S : \E i \in DOMAIN q : q[i] = x}
\* An emit through a pointer to a destroyed owner has no defined outcome.
Dangling == {"silent", "faults"}

keys(w) == {p \in WatchedPaths : w.m_map[p] # {}}
paths(w, pathsOwner) == {p \in keys(w) : pathsOwner \in w.m_map[p]}
activePaths(w, pathsOwner) == paths(w, pathsOwner) \cap w.watched
active(w) == w.m_active
pathOwners(w, path) == w.m_map[path]

synchronize(w) ==
    LET allActivePaths == w.watched
        pathsToRemove == allActivePaths \ keys(w)
        pathsToAdd == {p \in keys(w) : p \notin allActivePaths /\ p \in w.exists}
    IN  [w EXCEPT !.watched = (@ \ pathsToRemove) \cup pathsToAdd]

registerPaths(w, ps, pathsOwner) ==
    LET w1 == IF paths(w, pathsOwner) = {}
              THEN [w EXCEPT !.connected = @ \cup {pathsOwner}] ELSE w
        w2 == [w1 EXCEPT !.m_map = [p \in WatchedPaths |->
                  IF p \in ps THEN w1.m_map[p] \cup {pathsOwner} ELSE w1.m_map[p]]]
    IN  synchronize(w2)

unregisterPaths(w, ps, pathsOwner) ==
    LET w1 == [w EXCEPT !.m_map = [p \in WatchedPaths |->
                  IF p \in ps THEN w.m_map[p] \ {pathsOwner} ELSE w.m_map[p]],
                        !.m_pathsChanged = @ \ {p \in ps : w.m_map[p] \ {pathsOwner} = {}}]
        w2 == IF paths(w1, pathsOwner) = {}
              THEN [w1 EXCEPT !.connected = @ \ {pathsOwner}] ELSE w1
    IN  synchronize(w2)

onPathOwnerDestroyed(w, pathsOwner) ==
    LET ps == {p \in keys(w) : pathsOwner \in w.m_map[p]}
        w1 == IF ps # {} THEN unregisterPaths(w, ps, pathsOwner) ELSE w
    IN  synchronize(w1)

\* ~QObject emits destroyed(); the connection made by registerPaths calls
\* onPathOwnerDestroyed.
destroyOwner(w, pathsOwner) ==
    LET w1 == IF pathsOwner \in w.connected THEN onPathOwnerDestroyed(w, pathsOwner) ELSE w
    IN  [w1 EXCEPT !.alive = @ \ {pathsOwner}, !.connected = @ \ {pathsOwner}]

\* FileSystemWatcher::addPaths and removePaths.
addPaths(w, ps, pathsOwner) ==
    IF ps = {} THEN w ELSE registerPaths(w, ps \ {""}, pathsOwner)

removePaths(w, ps, pathsOwner) ==
    IF ps = {} THEN w ELSE unregisterPaths(w, ps \ {""}, pathsOwner)

\* The slot connected to pathChanged of owner o runs inside the emit.
react(w, r, o, path) ==
    CASE r[1] = "none" -> w
      [] r[1] = "removePaths" ->
            IF r[2] \in w.alive THEN removePaths(w, {path}, r[2]) ELSE w
      [] r[1] = "delete" ->
            IF r[2] \in w.alive /\ r[2] # o THEN destroyOwner(w, r[2]) ELSE w

\* foreach (pathOwner, pathOwners) emit pathOwner->pathChanged(path): the loop
\* runs over the copy taken before the first emit.
RECURSIVE emitFrom(_, _, _, _, _, _, _)
emitFrom(w, path, copy, order, i, slot, ub) ==
    IF i > Len(order) \/ w.fault THEN w
    ELSE LET o == order[i] IN
         IF o \notin copy THEN emitFrom(w, path, copy, order, i + 1, slot, ub)
         ELSE LET e == [owner |-> o, path |-> path, active |-> w.m_active,
                        registered |-> o \in w.m_map[path], alive |-> o \in w.alive]
                  w1 == [w EXCEPT !.emitted = Append(@, e)]
                  w2 == IF o \in w.alive THEN react(w1, slot[o], o, path)
                        ELSE IF ub = "faults" THEN [w1 EXCEPT !.fault = TRUE]
                        ELSE w1
              IN  emitFrom(w2, path, copy, order, i + 1, slot, ub)

onPathChanged_Forget(w, path, order, slot, ub) ==
    IF path \notin keys(w) THEN w
    ELSE LET w1 == [w EXCEPT !.watched = (@ \ {path}) \cup
                                  (IF path \in w.exists THEN {path} ELSE {})]
         IN  IF w1.m_active
             THEN emitFrom(w1, path, pathOwners(w1, path), order, 1, slot, ub)
             ELSE w1

onPathChanged(w, path, order, slot, ub) ==
    IF path \notin keys(w) THEN w
    ELSE LET w1 == [w EXCEPT !.watched = (@ \ {path}) \cup
                                  (IF path \in w.exists THEN {path} ELSE {})]
         IN  IF w1.m_active
             THEN emitFrom(w1, path, pathOwners(w1, path), order, 1, slot, ub)
             ELSE [w1 EXCEPT !.m_pathsChanged = @ \cup {path}]

\* foreach (path, m_pathsChanged) onPathChanged(path), over the set as it was
\* when the loop began.
RECURSIVE eachChanged(_, _, _, _, _, _, _)
eachChanged(w, copy, pathOrder, i, order, slot, ub) ==
    IF i > Len(pathOrder) \/ w.fault THEN w
    ELSE IF pathOrder[i] \notin copy
         THEN eachChanged(w, copy, pathOrder, i + 1, order, slot, ub)
         ELSE eachChanged(onPathChanged(w, pathOrder[i], order, slot, ub),
                          copy, pathOrder, i + 1, order, slot, ub)

onFocusChanged(w, pathOrder, order, slot, ub) ==
    IF w.m_active = w.window THEN w
    ELSE LET w1 == synchronize([w EXCEPT !.m_active = w.window])
         IN  IF ~w1.m_active THEN w1
             ELSE LET w2 == eachChanged(w1, w1.m_pathsChanged, pathOrder, 1, order, slot, ub)
                  IN  IF w2.fault THEN w2 ELSE [w2 EXCEPT !.m_pathsChanged = {}]

\* Watcher::Watcher: nothing registered, m_active(false) whatever window the
\* application has.
InitWatcher ==
    /\ PluginsIdle
    /\ dg = <<>>
    /\ conf = <<>>
    /\ twin = <<>>
    /\ \E win \in BOOLEAN, ex \in SUBSET WatchedPaths :
        fsw = [m_map |-> [p \in WatchedPaths |-> {}], m_active |-> FALSE,
               m_pathsChanged |-> {}, watched |-> {}, exists |-> ex,
               alive |-> {}, connected |-> {}, window |-> win,
               emitted |-> <<>>, fault |-> FALSE, last |-> <<"new">>]

Began(op) == [fsw EXCEPT !.emitted = <<>>, !.last = op]

\* The choices that only matter to a handler that emits.
Quiet(order, slot, ub) ==
    /\ order = CHOOSE q \in Orders(Owners) : TRUE
    /\ slot = [o \in Owners |-> <<"none">>]
    /\ ub = "silent"

\* new FileSystemWatcher(parent)
WatcherCreate ==
    \E o \in Owners \ fsw.alive :
        /\ ~fsw.fault
        /\ fsw' = [Began(<<"create", o>>) EXCEPT !.alive = @ \cup {o}]
        /\ UNCHANGED <<pluginVars, dg, conf, twin>>

WatcherAddPaths ==
    \E o \in fsw.alive, ps \in PathArgs :
        /\ ~fsw.fault
        /\ fsw' = addPaths(Began(<<"addPaths", o, ps>>), ps, o)
        /\ UNCHANGED <<pluginVars, dg, conf, twin>>

WatcherRemovePaths ==
    \E o \in fsw.alive, ps \in PathArgs :
        /\ ~fsw.fault
        /\ fsw' = removePaths(Began(<<"removePaths", o, ps>>), ps, o)
        /\ UNCHANGED <<pluginVars, dg, conf, twin>>

\* delete of a FileSystemWatcher
WatcherDestroy ==
    \E o \in fsw.alive :
        /\ ~fsw.fault
        /\ fsw' = destroyOwner(Began(<<"destroy", o>>), o)
        /\ UNCHANGED <<pluginVars, dg, conf, twin>>

\* QApplication::focusChanged, with or without a change of the active window.
WatcherFocusChanged ==
    \E win \in BOOLEAN, pathOrder \in Orders(WatchedPaths), order \in Orders(Owners),
       slot \in Slots, ub \in Dangling :
        /\ ~fsw.fault
        /\ \/ /\ ~fsw.m_active /\ win /\ fsw.m_pathsChanged # {}
              /\ ub = "silent" \/ \E o \in Owners : slot[o][1] = "delete"
           \/ Quiet(order, slot, ub) /\ pathOrder = CHOOSE q \in Orders(WatchedPaths) : TRUE
        /\ fsw' = onFocusChanged([Began(<<"focusChanged", win>>) EXCEPT !.window = win],
                                 pathOrder, order, slot, ub)
        /\ UNCHANGED <<pluginVars, dg, conf, twin>>

\* QFileSystemWatcher::fileChanged or directoryChanged for a path that was
\* modified, renamed or deleted; Qt may still report a path that was removed
\* from it.
WatcherFileChanged ==
    \E path \in WatchedPaths, ex \in BOOLEAN, order \in Orders(Owners),
       slot \in Slots, ub \in Dangling :
        /\ ~fsw.fault
        /\ path \in fsw.watched \/ path \notin keys(fsw)
        /\ \/ /\ fsw.m_active /\ path \in keys(fsw)
              /\ ub = "silent" \/ \E o \in Owners : slot[o][1] = "delete"
           \/ Quiet(order, slot, ub)
        /\ fsw' = onPathChanged(
                      [Began(<<"fileChanged", path>>) EXCEPT !.exists =
                          IF ex THEN @ \cup {path} ELSE @ \ {path}],
                      path, order, slot, ub)
        /\ UNCHANGED <<pluginVars, dg, conf, twin>>

\* A file that is not watched appears or disappears.
WatcherFileTouched ==
    \E path \in WatchedPaths \ fsw.watched, ex \in BOOLEAN :
        /\ ~fsw.fault
        /\ fsw' = [Began(<<"touched", path>>) EXCEPT !.exists =
                      IF ex THEN @ \cup {path} ELSE @ \ {path}]
        /\ UNCHANGED <<pluginVars, dg, conf, twin>>

NextWatcher ==
    \/ WatcherCreate
    \/ WatcherAddPaths
    \/ WatcherRemovePaths
    \/ WatcherDestroy
    \/ WatcherFocusChanged
    \/ WatcherFileChanged
    \/ WatcherFileTouched

SpecWatcher == InitWatcher /\ [][NextWatcher]_vars

WatcherTypeOK == fsw.m_pathsChanged \subseteq keys(fsw)

\* C31: pathChanged(path) reaches an owner only while the watcher is active
\* and only while that owner is registered for path: every emit a handler
\* executed on an existing owner found active() true and the owner among the
\* owners of the path.
C31_OnlyActiveOnlyRegistered ==
    \A i \in DOMAIN fsw.emitted :
        fsw.emitted[i].alive => fsw.emitted[i].active /\ fsw.emitted[i].registered

\* The part of C31 about the active state alone.
C31_OnlyActive == \A i \in DOMAIN fsw.emitted : fsw.emitted[i].active

Emits(w, o, path) ==
    Cardinality({i \in DOMAIN w.emitted : w.emitted[i].owner = o /\ w.emitted[i].path = path})

\* C32: a change reported for a registered path while the watcher is inactive
\* is put among the pending changes and stays there until the path has no
\* owner left; the step that makes the watcher active emits pathChanged(path)
\* exactly once to every owner registered for a pending path before and after
\* the step, never twice to anyone, for no path that was not pending, and
\* leaves no pending change behind.
C32_PendingDelivered ==
    [][~fsw'.fault =>
        /\ fsw'.m_pathsChanged \subseteq keys(fsw')
        /\ (fsw'.last[1] = "fileChanged" /\ ~fsw.m_active /\ fsw'.last[2] \in keys(fsw))
              => fsw'.last[2] \in fsw'.m_pathsChanged
        /\ (~fsw.m_active /\ ~fsw'.m_active)
              => /\ \A path \in fsw.m_pathsChanged :
                        path \in fsw'.m_pathsChanged \/ fsw'.m_map[path] = {}
                 /\ fsw'.emitted = <<>>
        /\ (~fsw.m_active /\ fsw'.m_active)
              => /\ \A path \in fsw.m_pathsChanged :
                        \A o \in fsw.m_map[path] \cap fsw'.m_map[path] :
                            Emits(fsw', o, path) = 1
                 /\ \A path \in WatchedPaths, o \in Owners : Emits(fsw', o, path) <= 1
                 /\ \A i \in DOMAIN fsw'.emitted : fsw'.emitted[i].path \in fsw.m_pathsChanged
                 /\ fsw'.m_pathsChanged = {}
    ]_vars

\* Both owners of a path that changed while the watcher was inactive have been
\* notified by the focus change that made it active.
C32_Witness ==
    /\ fsw # <<>>
    /\ fsw.last = <<"focusChanged", TRUE>>
    /\ fsw.m_active
    /\ \E path \in WatchedPaths :
          /\ fsw.m_map[path] = Owners
          /\ \A o \in Owners : Emits(fsw, o, path) = 1

\* ----------------------------------------------------------------- C33
\* C33: every unloadQueue call the manager makes, on a spec of its map in
\* state >= Loaded (PluginManagerPrivate::unloadQueue, and the spec whose
\* initialize failed in initializePlugins) or by recursion through
\* providesSpecs from such a spec, finds its spec in state >= Resolved:
\* Q_ASSERT(state >= PluginSpec::Resolved) holds in every call.
C33_UnloadQueueResolved ==
    pc # "lib" =>
        \A t \in Held : h[t].state >= Loaded => unloadQueue(QueueCall(h, <<>>), t).asserted

\* ----------------------------------------------------------------- C34
\* In heap hh every spec that holds a plugin instance has only
\* dependencySpecs that hold one.
LoadedClosed(hh) ==
    \A t \in HoldingPlugin(hh) :
        \A d \in SeqSet(hh[t].dependencySpecs) : hh[d].plugin # NullPlugin

\* The i-th call is a loadPlugin that left its spec without an instance.
LoadFailedAt(i) ==
    IsCall(i, "loadPlugin") /\ calls[i].post[calls[i].spec].plugin = NullPlugin

\* C34: after every operation of the manager, and before and after every
\* loadPlugin and unloadPlugin call it makes, each spec that holds a plugin
\* instance has all its dependencySpecs holding one; when loadPlugin fails on
\* a spec, no spec that depends on it holds an instance from then on.
C34_LoadedClosed ==
    /\ LoadedClosed(h)
    /\ \A i \in 1..Len(calls) :
          /\ LoadedClosed(calls[i].pre) /\ LoadedClosed(calls[i].post)
          /\ LoadFailedAt(i) =>
                \A j \in i..Len(calls), d \in Names :
                    DependsOn(calls[j].post, d, calls[i].spec)
                        => calls[j].post[d].plugin = NullPlugin

\* The library of a dependency failed to load, loadPlugin was then called on
\* a spec depending on it, and another spec was loaded.
C34_Witness ==
    /\ result.op = "loadPlugins"
    /\ HoldingPlugin(h) # {}
    /\ \E i \in 1..Len(calls) :
          /\ LoadFailedAt(i)
          /\ calls[i].post[calls[i].spec].hasError
          /\ \E j \in (i + 1)..Len(calls) :
                /\ IsCall(j, "loadPlugin")
                /\ InSeq(calls[i].spec, calls[j].pre[calls[j].spec].dependencySpecs)

\* ----------------------------------------------------------------- C35
\* Spec t lies on a cycle of resolved dependencies, or depends on a spec
\* that does.
OnCycle(hh, t) == DependsOn(hh, t, t)
ReachesCycle(hh, t) ==
    OnCycle(hh, t) \/ \E x \in Names : DependsOn(hh, t, x) /\ OnCycle(hh, x)

\* C35: after resolveIndirectlyDisabled(true) on every spec, in any order,
\* every spec on a dependency cycle or depending, directly or not, on a spec
\* of a cycle is indirectly disabled and is not in the manager's load queue.
C35_CyclesDisabled ==
    pc = "propagated" =>
        \A t \in Created :
            ReachesCycle(h, t) =>
                /\ h[t].indirectlyDisabled
                /\ ~InSeq(t, mgrLoadQueue(h, specs).queue)

\* A and B depend on each other, B depends on itself as well, and C depends
\* on A: two cycles that share B, and a spec outside them that reaches them.
C35_Witness ==
    /\ pc = "propagated"
    /\ Created = Names
    /\ h["A"].dependencySpecs = <<"B">>
    /\ SeqSet(h["B"].dependencySpecs) = {"A", "B"}
    /\ h["C"].dependencySpecs = <<"A">>
    /\ \A t \in Names : h[t].indirectlyDisabled

\* ----------------------------------------------------------------- C36
\* The shutdown calls on spec t among the calls cs.
Shutdowns(cs, t) == {i \in 1..Len(cs) : cs[i].op = "shutdown" /\ cs[i].spec = t}

\* The initialize calls on spec t among the calls cs that returned success.
Initializes(cs, t) ==
    {i \in 1..Len(cs) : /\ cs[i].op = "initialize" /\ cs[i].spec = t
                        /\ cs[i].post[t].state = Initialized}

\* C36: in every operation of the manager, shutdown is called on a plugin
\* only by unloadPlugin, as the call just before the instance is released,
\* and only on a spec that is Initialized; a spec becomes Initialized only by
\* an initialize call that returned success; a spec that was Initialized and
\* has lost its instance had shutdown called exactly once, and a spec that
\* was not Initialized and was not initialized in the operation had it called
\* never.
C36_ShutdownOnce ==
    [][result'.op \in {"loadPlugins", "initializePlugins", "unloadPlugins"} =>
        /\ \A i \in 1..Len(calls') :
              /\ calls'[i].op = "shutdown" =>
                    /\ calls'[i].pre[calls'[i].spec].state = Initialized
                    /\ calls'[i].pre[calls'[i].spec].plugin # NullPlugin
                    /\ i < Len(calls')
                    /\ calls'[i + 1].op = "unloadPlugin"
                    /\ calls'[i + 1].spec = calls'[i].spec
                    /\ calls'[i + 1].pre = calls'[i].pre
              /\ (calls'[i].op = "unloadPlugin"
                    /\ calls'[i].pre[calls'[i].spec].state = Initialized) =>
                    /\ i > 1
                    /\ calls'[i - 1].op = "shutdown"
                    /\ calls'[i - 1].spec = calls'[i].spec
                    /\ calls'[i].post[calls'[i].spec].plugin = NullPlugin
        /\ \A t \in Names :
              /\ (h[t].state # Initialized /\ h'[t].state = Initialized)
                    => Initializes(calls', t) # {}
              /\ (h[t].state = Initialized
                    /\ (h'[t].plugin = NullPlugin \/ h'[t].state # Initialized))
                    => Cardinality(Shutdowns(calls', t)) = 1
              /\ (h[t].state = Initialized /\ h'[t].state = Initialized)
                    => Shutdowns(calls', t) = {}
              /\ h[t].state # Initialized
                    => Cardinality(Shutdowns(calls', t)) <= Cardinality(Initializes(calls', t))
    ]_vars

\* unloadPlugins has released two plugins: on the one that was Initialized
\* shutdown was called, on the one whose initialize had failed it was not.
C36_Witness ==
    /\ result.op = "unloadPlugins"
    /\ \E t, u \in Names :
          /\ Shutdowns(calls, t) # {}
          /\ Shutdowns(calls, u) = {}
          /\ \E i \in 1..Len(calls) :
                /\ calls[i].op = "unloadPlugin" /\ calls[i].spec = u
                /\ calls[i].pre[u].plugin # NullPlugin
                /\ calls[i].pre[u].initializationFailed

\* ----------------------------------------------------------------- C37
\* PluginManagerPrivate::pluginSpec: QMultiMap::value(plugin), the first
\* entry of the key.
pluginSpec(map, plugin) ==
    map[CHOOSE i \in 1..Len(map) :
            map[i][1] = plugin /\ \A j \in 1..(i - 1) : map[j][1] # plugin][2]

\* The entries of spec t in the map.
EntriesOf(map, t) == {i \in 1..Len(map) : map[i][2] = t}

\* C37: after every operation of the manager each spec whose read returned
\* true has exactly one entry in m_pluginToSpec, under the instance it holds
\* or under the null key when it holds none; plugins() is the set of the
\* instances of the specs in state >= Loaded, and pluginSpec(p) is the spec
\* whose plugin() is p.
C37_MapKeyedByInstance ==
    pc # "start" =>
        /\ \A t \in Created :
              h[t].state >= Read =>
                  /\ Cardinality(EntriesOf(m_pluginToSpec, t)) = 1
                  /\ \A i \in EntriesOf(m_pluginToSpec, t) :
                        m_pluginToSpec[i][1] = h[t].plugin
        /\ plugins(m_pluginToSpec) = {h[t].plugin : t \in {u \in Created : h[u].state >= Loaded}}
        /\ \A p \in plugins(m_pluginToSpec) :
              h[pluginSpec(m_pluginToSpec, p)].plugin = p

\* initializePlugins unloaded a plugin that failed and one that depends on
\* it and left a third one Initialized.
C37_Witness ==
    /\ result.op = "initializePlugins"
    /\ Cardinality(plugins(m_pluginToSpec)) = 1
    /\ Cardinality({i \in 1..Len(calls) : calls[i].op = "unloadPlugin"
                                           /\ calls[i].pre[calls[i].spec].plugin # NullPlugin}) = 2
    /\ \A t \in Names : Cardinality(EntriesOf(m_pluginToSpec, t)) = 1

\* ----------------------------------------------------------------- C38
\* The view has just set the enabled flag of a spec that was disabled, in a
\* graph without cycles.
Reenabled ==
    /\ result.op = "toggle" /\ result.ret /\ ~result.was
    /\ h[result.queue[1]].enabled
    /\ Acyclic(h)

\* C38: when the view has re-enabled a disabled spec X of an acyclic graph
\* and called resolveIndirectlyDisabled(true) on the specs of
\* X.providesSpecs, every spec that depends on X, directly or not, is
\* indirectly disabled exactly if one of its dependencySpecs is disabled, has
\* an error, failed to initialize or is indirectly disabled.
C38_ReenableRestores ==
    Reenabled =>
        \A d \in Names :
            DependsOn(h, d, result.queue[1]) =>
                (h[d].indirectlyDisabled <=> dependencyUnusable(h, d))

\* B depends on A, C on A and B, and B is disabled; A has been re-enabled:
\* B is not indirectly disabled any more, C still is.
C38_Witness ==
    /\ Reenabled
    /\ \E x, y, d, e \in Names :
          /\ x = result.queue[1] /\ y # x /\ d = y /\ d # e
          /\ ~h[y].enabled
          /\ DependsOn(h, d, x) /\ ~DependsOn(h, d, y) /\ ~h[d].indirectlyDisabled
          /\ DependsOn(h, e, x) /\ DependsOn(h, e, y) /\ h[e].indirectlyDisabled

\* ----------------------------------------------------------------- C39
\* The resolver has just returned from its calls of resolveIndirectlyDisabled.
Propagated == pc \in {"propagated", "called"}

\* C39: every call of resolveIndirectlyDisabled from outside, with force true
\* or false, returns: the calls it makes through the finite providesSpecs
\* lists never nest deeper than twice the number of specs, which is below
\* the depth the model follows them to.
C39_Terminates == Propagated => result.deep <= 2 * Cardinality(Created) /\ result.deep < MaxDepth

\* A call without force went round a cycle that shares a spec with another
\* one and found it on the stack.
C39_Witness ==
    /\ pc = "called" /\ ~result.force
    /\ result.n >= 5
    /\ \E t, u \in Names :
          /\ t # u
          /\ DependsOn(h, t, u) /\ DependsOn(h, u, t) /\ DependsOn(h, u, u)
          /\ InSeq(u, h[u].dependencySpecs)
          /\ h[t].circularDependencyDetected
    /\ resolvedPluginsStack = <<>>

\* C40: resolvedPluginsStack is balanced: in every call from outside each
\* pop gave the spec that made the matching push, so that no
\* Q_ASSERT(me == this) failed, in the circular branch either, and the stack
\* is empty when the call from outside has returned.
C40_StackBalanced ==
    Propagated => /\ result.balanced
                  /\ asserted
                  /\ resolvedPluginsStack = <<>>

\* A call from outside has returned in which a spec found itself on the stack
\* below two others and was pushed a second time.
C40_Witness ==
    /\ pc = "called"
    /\ result.deep >= 4
    /\ result.balanced
    /\ h[result.spec].circularDependencyDetected
    /\ h[result.spec].providesSpecs # <<>>

====
